---- MODULE Spec2Model ----
(***************************************************************************)
(* Reactive background engines of the PlatonicPitch site, as one state     *)
(* machine: one engine instance (its class chosen in Init) driven by the   *)
(* host page: construction, the lifecycle calls start/stop/destroy, the    *)
(* animation-frame callback, and pointer / resize / scroll events.         *)
(*                                                                         *)
(* Numbers.  JavaScript doubles are modelled in whole surface units: the   *)
(* easing step (target - current) * easing is computed exactly and then    *)
(* truncated toward zero to a whole unit.  The 1-unit motion threshold,    *)
(* the 30-tick heartbeat and the 500 ms throttle are the program's own     *)
(* constants.  The hexagon grid is kept in exact units (quarters of the    *)
(* cell width and of the cell size); the grid generator and the hexagon    *)
(* layer of a paint pass are also run on their own, on surfaces and        *)
(* pointer positions drawn in InitGrid and InitCells.                      *)
(***************************************************************************)
EXTENDS Integers, FiniteSets, Sequences, TLC

(* ------------------------------ program constants --------------------- *)
HeartbeatFrames == 30      \* if (this.frameCount >= 30)
MotionEpsilon   == 1       \* Math.abs(this.mouse.x - this.lastMouseX) > 1
ThrottleMs      == 500     \* if (now - this.lastResizeTime < 500) return
EasingNum       == 3       \* easing: 0.3 = EasingNum / EasingDen
EasingDen       == 10
ShaderFrameSkip == 2       \* if (this.frameCount % 2 === 0)
LogoEasingNum   == 24      \* LogoTilt easing: 0.24 = LogoEasingNum / LogoEasingDen
LogoEasingDen   == 100
MaxTilt         == 10      \* LogoTilt maxTilt: 10
RegenThreshold  == 100     \* Math.abs(this.width - this.lastWidth) > 100
HexSize         == 20      \* hexSize: isLowPerformance ? 30 : 20
HexSizeLow      == 30
HexFadeRadius   == 500     \* hexFadeRadius: isLowPerformance ? 300 : 500
HexFadeRadiusLow == 300
Sqrt3Milli      == 1732    \* Math.sqrt(3), in thousandths
HexOpacityNum   == 9       \* hexOpacity: 0.09 = HexOpacityNum / HexOpacityDen
HexOpacityDen   == 100
ViewportBuffer  == 200     \* const viewportBuffer = 200
SpacingNum      == 3       \* const spacing = 1.5 = SpacingNum / SpacingDen
SpacingDen      == 2
ExtraCells      == 1       \* Math.ceil(height / ...) + 1
ExtraCellsOrig  == 2       \* first version: Math.ceil(height / ...) + 2
DprOne          == 2       \* window.devicePixelRatio || 1, in halves
NoiseStep       == 25      \* a quarter of noiseScale, the step of the noise loop
GradientSize    == 50      \* --gradient-size while the pointer is inside: 50%
DprCap          == 4       \* Math.min(..., 2), in halves

(* ------------------------------ bounds of the model ------------------- *)
InnerWidth  == 14          \* window.innerWidth (also the hero section's width)
InnerHeight == 14          \* window.innerHeight
TallDoc     == 50          \* the taller of the two document / hero heights
LongDoc     == 160         \* a document more than RegenThreshold taller still
ScrollMax   == 4           \* the scrolled position (the other one is 0)
ClockStep   == 500         \* milliseconds by which the wall clock advances
MaxPending  == 2           \* cap on animation frames pending for the instance
MaxEvents   == 1           \* pointer, resize and scroll events in one run
MotionEvents == 2          \* the same, in the runs that follow a moving pointer
IdleEvents  == 1           \* the same, in the runs that record quiet ticks
ResizeEvents == 2          \* the same, in the runs that start on a long page
LeaveEvents == 1           \* the same, in the runs that start on a tall page
SurfaceEvents == 1         \* events of a run over the pixel ratios
PairEvents  == 1           \* events of a run with two instances
LongSurface == 900         \* height of the surface whose hexagons are drawn
HeroEvents  == 1           \* the same, in the runs of HybridBackground alone
TiltEvents  == 2           \* the same, in the runs of LogoTilt alone
DebounceWait == 2          \* wait of debounce(func, wait), in clock steps
MaxCalls    == 4           \* calls of a debounced function in one run
GradientEvents == 3        \* mousemove and mouseout events of a gradient run
NoiseSteps  == 24          \* coordinates noise() is called with, per axis

(* ------------------------------ classes ------------------------------- *)
\* "CanvasOpt"  : CanvasBackground with dirty-frame scheduling (unnamed/part_000)
\* "CanvasOrig" : CanvasBackground, first version (js/canvasBackground.js)
\* "Hybrid"     : HybridBackground (js/hybridBackground.js)
\* "Svg"        : SvgBackground (js/buttonGradient.js)
\* "LogoTilt"   : LogoTilt (unnamed/part_001)
\* "Shader"     : ShaderBackground (js/shaderBackground.js)
Kinds ==
  {"CanvasOpt", "CanvasOrig", "Hybrid", "Svg", "LogoTilt", "Shader", "Perlin"}

\* Classes whose render() carries the dirty-frame scheduler.
DirtyKinds == {"CanvasOpt", "Hybrid", "Svg"}

\* Classes that define start(), stop() and destroy().
LifecycleKinds == Kinds \ {"Shader", "Perlin"}

VARIABLES
  \* ---- what the instance is (fixed at construction)
  kind,            \* the class of the instance
  isFirefox,       \* HybridBackground: this.isFirefox (user-agent sniffing)
  hostFound,       \* the required host element / capability is present
  constructed,     \* the constructor has run
  hostRef,         \* the page holds a reference to the instance
  \* ---- fields of the instance
  isRunning,       \* this.isRunning (LogoTilt: this.isActive; Shader: this.renderer set)
  animationFrame,  \* this.animationFrame / this.requestId: last handle, 0 = null
  mouseX, mouseY,  \* this.mouse.x, this.mouse.y  (LogoTilt: tiltX, tiltY)
  targetX, targetY,\* this.mouse.targetX, targetY (LogoTilt: targetTiltX, targetTiltY)
  lastMouseX, lastMouseY,
  needsUpdate,
  frameCount,      \* this.frameCount (Shader: frameCount modulo 2)
  width, height,   \* this.width, this.height (0 while undefined)
  centerX, centerY,\* LogoTilt: this.centerX, this.centerY
  elapsed,         \* Date.now() - this.lastResizeTime, capped at ThrottleMs
  lastWidth, lastHeight, \* CanvasBackground: dimensions of the last grid build
  hexGrid,         \* CanvasBackground: this.hexGrid, the set of cells
  hexSize,         \* this.options.hexSize
  hexFates,        \* what the hexagon loop of the last paint did with each cell
  supplied,        \* the options object handed to the constructor
  options,         \* this.options
  layers,          \* the layers the last paint pass painted, in order
  surface,         \* the owned canvas: its pixel size and context scale (in
                   \* halves) and whether its bitmap holds a painted frame
  devicePixelRatio,\* window.devicePixelRatio in halves (0: absent)
  webglProbe,      \* what asking the host for a WebGL context does
  peer,            \* a second instance of the class on the same page
  \* ---- the host page
  pending,         \* handles of the animation frames pending for the instance
  listeners,       \* event types the instance's handlers are attached to
  attached,        \* the owned surface is in the document
  docHeight,       \* height of the observed content area
  scrollY,         \* window.scrollY
  \* ---- observation of the last step
  threw,           \* the operation of the last step raised an exception
  tickResult,      \* what the render body did in the last step
  drew,            \* the render body issued at least one draw call
  accepted,        \* the last step ran handleResize() past its throttle
  sinceQuery,      \* milliseconds since handleResize() last queried the
                   \* layout, capped at ThrottleMs
  movedSinceTick,  \* a handler changed the target since the previous tick
                   \* (in the state a tick leaves: between the tick before
                   \* it and that tick)
  resizedSinceTick,\* likewise: a resize/scroll was accepted
  pointerBusy,     \* the target changed before every tick since construction
  paintLog,        \* paint flags of the latest consecutive quiet ticks
  observe,         \* whether paintLog is kept in this run
  \* ---- what the host will still do in this run
  eventsLeft,      \* pointer, resize and scroll events still to come
  \* ---- calls of the helpers that live outside the instance state
  noiseCall,       \* a call of noise(x, y): its arguments and what it returned
  debounced,       \* a function returned by debounce(func, wait): its closure
                   \* variable timeout, the host's timers, and what func saw
  gradient         \* initMouseReactiveBackground: the custom properties of
                   \* the root element, its closure variables, its frames

vars == << kind, isFirefox, hostFound, constructed, hostRef, isRunning,
           animationFrame, mouseX, mouseY, targetX, targetY, lastMouseX,
           lastMouseY, needsUpdate, frameCount, width, height, centerX,
           centerY, elapsed, pending, listeners, attached, docHeight, scrollY,
           threw, tickResult, drew, movedSinceTick, resizedSinceTick,
           pointerBusy, paintLog, observe, eventsLeft, lastWidth, lastHeight,
           hexGrid, hexSize, accepted, sinceQuery, hexFates, supplied,
           options, layers, surface, devicePixelRatio, webglProbe, peer,
           noiseCall, debounced, gradient >>

\* What belongs to an instance and the page around it
engine == << kind, isFirefox, hostFound, constructed, hostRef, isRunning,
             animationFrame, mouseX, mouseY, targetX, targetY, lastMouseX,
             lastMouseY, needsUpdate, frameCount, width, height, centerX,
             centerY, elapsed, pending, listeners, attached, docHeight,
             scrollY, threw, tickResult, drew, movedSinceTick,
             resizedSinceTick, pointerBusy, paintLog, observe, eventsLeft,
             lastWidth, lastHeight, hexGrid, hexSize, accepted, sinceQuery,
             hexFates, supplied, options, layers, surface, devicePixelRatio,
             webglProbe, peer >>

\* What belongs to the helpers, which no operation of an instance touches
helpers == << noiseCall, debounced, gradient >>

(* ------------------------------ arithmetic ---------------------------- *)
Abs(n) == IF n < 0 THEN -n ELSE n

Min(a, b) == IF a < b THEN a ELSE b

\* Division truncating toward zero, as a double multiplied out and cut to
\* whole units keeps the sign of the step.
TruncDiv(a, b) == IF a >= 0 THEN a \div b ELSE -((-a) \div b)

\* The easing step with the factor 1: current snaps to the target
EaseSnap(current, target) == target

\* current + (target - current) * easing
Ease(current, target) == current + TruncDiv((target - current) * EasingNum, EasingDen)

(* ------------------------------ the instance as a record -------------- *)
\* The frame handles an instance holds: those of its pending frames and the
\* one it has stored.
Handles(p) == p.pending \cup {p.animationFrame}

\* The fields an operation reads and writes, gathered so that an operation
\* that calls another (init -> handleResize -> start -> render) composes.
Cur ==
  [ isRunning |-> isRunning, animationFrame |-> animationFrame,
    mouseX |-> mouseX, mouseY |-> mouseY, targetX |-> targetX,
    targetY |-> targetY, lastMouseX |-> lastMouseX, lastMouseY |-> lastMouseY,
    needsUpdate |-> needsUpdate, frameCount |-> frameCount,
    width |-> width, height |-> height, centerX |-> centerX,
    centerY |-> centerY, elapsed |-> elapsed, pending |-> pending,
    listeners |-> listeners, attached |-> attached,
    lastWidth |-> lastWidth, lastHeight |-> lastHeight, hexGrid |-> hexGrid,
    sinceQuery |-> sinceQuery, surface |-> surface,
    taken |-> Handles(peer), cancelled |-> {},
    threw |-> FALSE, tickResult |-> "none", drew |-> FALSE, accepted |-> FALSE ]

\* HybridBackground creates this.highlightCanvas only when the hero section
\* was found and the browser is not Firefox.
HasCanvas == hostFound /\ ~isFirefox

\* The draw calls of the class go through a canvas / WebGL context and can
\* raise; SvgBackground and LogoTilt only assign style properties.
DrawCanThrow == kind \in {"CanvasOpt", "CanvasOrig", "Hybrid", "Shader"}

(* ------------------------------ host scheduling primitive ------------- *)
FrameIds == 1 .. (2 * MaxPending + 4)

\* A host that hands out the least handle the instance itself has no frame
\* pending under, whatever other instances hold
FreshFrameOwn(w) ==
  CHOOSE i \in FrameIds :
    /\ i \notin w.pending
    /\ \A j \in FrameIds : j < i => j \in w.pending

\* The handle of a new request: one that names no pending frame (the least
\* such; a handle whose frame has run or was cancelled names nothing).  The
\* host never hands out a handle twice, so the handle is none that another
\* instance holds.
FreshFrame(w) ==
  CHOOSE i \in FrameIds :
    /\ i \notin w.pending \cup w.taken
    /\ \A j \in FrameIds : j < i => j \in w.pending \cup w.taken

\* this.animationFrame = requestAnimationFrame(this.render)
requestAnimationFrame(w) ==
  LET id == FreshFrame(w)
  IN  [w EXCEPT !.pending = @ \cup {id}, !.animationFrame = id]

\* requestAnimationFrame(this.animate.bind(this)): the handle is dropped
requestAnimationFrameUnkept(w) ==
  [w EXCEPT !.pending = @ \cup {FreshFrame(w)}]

\* cancelAnimationFrame(this.animationFrame)
cancelAnimationFrame(w) ==
  [w EXCEPT !.pending = @ \ {w.animationFrame},
            !.cancelled = @ \cup {w.animationFrame}]

(* ------------------------------ hexagon grid -------------------------- *)
\* Lengths of the grid are exact.  With hexWidth = size * Math.sqrt(3), a
\* cell { x, y, size } is kept as the record [x, y, size] whose x counts
\* quarters of hexWidth and whose y counts quarters of size; a comparison
\* with a length in pixels is made on the squares, where the square root of
\* three disappears.

\* a % b of JavaScript: the remainder keeps the sign of the dividend
JsRem(a, b) == IF a >= 0 THEN a % b ELSE -((-a) % b)

\* Math.ceil(a / b) for a >= 0, b > 0
CeilDiv(a, b) == (a + b - 1) \div b

\* The spacing multiplier of the class as the pair << numerator, denominator >>
\* (the first version has none), and the cells added to each count.
Spacing == IF kind = "CanvasOrig" THEN << 1, 1 >> ELSE << SpacingNum, SpacingDen >>

Extra == IF kind = "CanvasOrig" THEN ExtraCellsOrig ELSE ExtraCells

\* Math.ceil(width / (hexWidth * spacing)): the least n with
\* n * size * sqrt(3) * spacing >= width, searched upward from n.
RECURSIVE CeilCols(_, _, _)
CeilCols(n, W, size) ==
  IF 3 * n * n * size * size * Spacing[1] * Spacing[1]
       >= W * W * Spacing[2] * Spacing[2]
  THEN n
  ELSE CeilCols(n + 1, W, size)

\* Math.ceil(height / (size * 1.5 * spacing))
CeilRows(H, size) == CeilDiv(2 * Spacing[2] * H, 3 * Spacing[1] * size)

\* x of the cell in column col of row row, in quarters of hexWidth:
\* col * hexWidth * spacing + (row % 2 === 0 ? 0 : hexWidth / 2)
CellX(col, row) ==
  ((4 * col * Spacing[1]) \div Spacing[2])
    + (IF JsRem(row, 2) = 0 THEN 0 ELSE 2)

\* y of a cell of row row, in quarters of size: row * size * 1.5 * spacing
CellY(row) == (6 * row * Spacing[1]) \div Spacing[2]

\* The cells generateHexGrid() pushes for a surface of W by H pixels.
GridCells(W, H, size) ==
  LET rows == CeilRows(H, size) + Extra
      cols == CeilCols(0, W, size) + Extra
  IN  { [x |-> CellX(col, row), y |-> CellY(row), size |-> size] :
          col \in -1 .. (cols - 1), row \in -1 .. (rows - 1) }

\* generateHexGrid()
generateHexGrid(w) ==
  [w EXCEPT !.hexGrid = GridCells(w.width, w.height, hexSize)]

(* ------------------------------ the owned canvas ---------------------- *)
\* The classes that own a canvas they draw on
SurfaceKinds == {"CanvasOpt", "CanvasOrig", "Hybrid", "Shader"}

\* const dpr = ... of handleResize(); Shader: renderer.setPixelRatio(
\* window.devicePixelRatio), which keeps the renderer's ratio of 1 when the
\* value is undefined.
dprUncapped == IF devicePixelRatio = 0 THEN DprOne ELSE devicePixelRatio

dpr ==
  IF kind \in {"CanvasOrig", "Shader"} THEN dprUncapped
  ELSE Min(dprUncapped, DprCap)

\* Sizing the canvas with its bitmap left as it was
sizeSurfaceKeepsBitmap(w, pw, ph) ==
  [w EXCEPT !.surface = [width |-> pw * dpr, height |-> ph * dpr,
                         scale |-> dpr, painted |-> @.painted]]

\* canvas.width = ...; canvas.height = ...; ctx.scale(dpr, dpr): assigning
\* the size clears the bitmap and resets the transform.
sizeSurface(w, pw, ph) ==
  [w EXCEPT !.surface = [width |-> pw * dpr, height |-> ph * dpr,
                         scale |-> dpr, painted |-> FALSE]]

\* The draw calls of a pass reach the bitmap of the owned canvas.
paintSurface(w) ==
  IF kind \in SurfaceKinds
  THEN [w EXCEPT !.surface.painted = TRUE]
  ELSE w

(* ------------------------------ resize / scroll handler --------------- *)
\* The optimized CanvasBackground regenerates the grid only when the size
\* changed significantly since the last build (hexEnabled: true).
regenerate(w) ==
  IF \/ Abs(w.width - w.lastWidth) > RegenThreshold
     \/ Abs(w.height - w.lastHeight) > RegenThreshold
  THEN generateHexGrid([w EXCEPT !.lastWidth = w.width,
                                 !.lastHeight = w.height])
  ELSE w

\* handleResize() of the instance's class; dh is the height of the observed
\* content area (document or hero section) at the time of the call.
handleResize(w, dh, sy) ==
  CASE kind = "CanvasOrig" ->
         \* no throttle, no dirty flag: the size is taken and the grid
         \* generated at every event (hexEnabled: true)
         generateHexGrid(sizeSurface([w EXCEPT !.width = InnerWidth,
                                               !.height = dh,
                                               !.accepted = TRUE],
                                     InnerWidth, dh))
    [] kind = "LogoTilt" ->
         \* the logo sits centred in the first viewport of the document;
         \* getBoundingClientRect() is relative to the scrolled viewport
         [w EXCEPT !.centerX = InnerWidth \div 2,
                   !.centerY = (InnerHeight \div 2) - sy,
                   !.accepted = TRUE]
    [] kind = "Shader" ->
         \* renderer.setSize / iResolution only: no field of the instance
         sizeSurface(w, InnerWidth, dh)
    [] OTHER ->
         IF w.elapsed < ThrottleMs
         THEN w
         ELSE LET t == [w EXCEPT !.elapsed = 0, !.accepted = TRUE]
              IN  CASE kind = "CanvasOpt" ->
                         regenerate(sizeSurface(
                           [t EXCEPT !.width = InnerWidth, !.height = dh,
                                     !.needsUpdate = TRUE], InnerWidth, dh))
                    [] kind = "Hybrid" ->
                         IF HasCanvas
                         THEN sizeSurface(
                                [t EXCEPT !.width = InnerWidth, !.height = dh,
                                          !.needsUpdate = TRUE],
                                InnerWidth, dh)
                         ELSE [t EXCEPT !.width = InnerWidth, !.height = dh]
                    [] OTHER ->  \* "Svg": only the container heights
                         [t EXCEPT !.needsUpdate = TRUE]

(* ------------------------------ pointer handlers ---------------------- *)
\* handleMouseMove(e) taking the target wherever the pointer is
handleMouseMoveAnywhere(w, cx, cy, sy) ==
  CASE kind = "LogoTilt" ->
         [w EXCEPT
            !.targetY = TruncDiv((cx - w.centerX) * MaxTilt * 2, InnerWidth),
            !.targetX = TruncDiv((w.centerY - cy) * MaxTilt * 2, InnerHeight)]
    [] OTHER ->
         [w EXCEPT !.targetX = cx, !.targetY = cy + sy]

\* handleMouseMove(e) with e.clientX = cx, e.clientY = cy, window.scrollY = sy
handleMouseMove(w, cx, cy, sy) ==
  CASE kind = "Hybrid" ->
         \* heroRect: left 0, right InnerWidth, top -sy, bottom height - sy
         IF /\ cx >= 0 /\ cx <= InnerWidth
            /\ cy >= -sy /\ cy <= docHeight - sy
         THEN [w EXCEPT !.targetX = cx, !.targetY = cy + sy]
         ELSE w
    [] kind = "LogoTilt" ->
         [w EXCEPT
            !.targetY = TruncDiv((cx - w.centerX) * MaxTilt * 2, InnerWidth),
            !.targetX = TruncDiv((w.centerY - cy) * MaxTilt * 2, InnerHeight)]
    [] OTHER ->
         [w EXCEPT !.targetX = cx, !.targetY = cy + sy]

\* handleMouseLeave() resetting to the centre of the stored surface, whatever
\* the class
handleMouseLeaveSurface(w, sy) ==
  IF kind = "LogoTilt"
  THEN [w EXCEPT !.targetX = 0, !.targetY = 0]
  ELSE [w EXCEPT !.targetX = w.width \div 2, !.targetY = w.height \div 2]

\* handleMouseLeave()
handleMouseLeave(w, sy) ==
  CASE kind \in {"CanvasOpt", "CanvasOrig"} ->
         [w EXCEPT !.targetX = w.width \div 2,
                   !.targetY = sy + (InnerHeight \div 2)]
    [] kind = "Hybrid" ->
         [w EXCEPT !.targetX = w.width \div 2, !.targetY = w.height \div 2]
    [] kind = "LogoTilt" ->
         [w EXCEPT !.targetX = 0, !.targetY = 0]
    [] OTHER ->
         [w EXCEPT !.targetX = InnerWidth \div 2,
                   !.targetY = sy + (InnerHeight \div 2)]

(* ------------------------------ the per-frame callback ---------------- *)
\* LogoTilt: this.tiltX += (this.targetTiltX - this.tiltX) * this.options.easing
EaseTilt(current, target) ==
  current + TruncDiv((target - current) * LogoEasingNum, LogoEasingDen)

\* The paint pass of render(): the draw calls, then the request for the next
\* frame as the last statement.  A draw call that raises leaves the method
\* before that request is reached.
paintPass(w, throws) ==
  IF throws /\ DrawCanThrow
  THEN paintSurface([w EXCEPT !.tickResult = "threw", !.threw = TRUE,
                              !.drew = TRUE])
  ELSE requestAnimationFrame(
         paintSurface([w EXCEPT !.tickResult = "paint", !.drew = TRUE]))

\* dirtyFrame with the motion signal taken on the x axis alone.
dirtyFrameNoY(w, throws) ==
  LET e == [w EXCEPT !.mouseX = Ease(w.mouseX, w.targetX),
                     !.mouseY = Ease(w.mouseY, w.targetY)]
      mouseMoved == Abs(e.mouseX - e.lastMouseX) > MotionEpsilon
      beat == e.frameCount + 1 >= HeartbeatFrames
      f == [e EXCEPT !.frameCount = IF beat THEN 0 ELSE @ + 1,
                     !.needsUpdate = IF beat THEN TRUE ELSE @]
  IN  IF ~mouseMoved /\ ~f.needsUpdate
      THEN requestAnimationFrame([f EXCEPT !.tickResult = "skip"])
      ELSE paintPass([f EXCEPT !.lastMouseX = f.mouseX,
                               !.lastMouseY = f.mouseY,
                               !.needsUpdate = FALSE], throws)


\* dirtyFrame with the heartbeat comparison off by one (> for >=).
dirtyFrameLateBeat(w, throws) ==
  LET e == [w EXCEPT !.mouseX = Ease(w.mouseX, w.targetX),
                     !.mouseY = Ease(w.mouseY, w.targetY)]
      mouseMoved == \/ Abs(e.mouseX - e.lastMouseX) > MotionEpsilon
                    \/ Abs(e.mouseY - e.lastMouseY) > MotionEpsilon
      beat == e.frameCount + 1 > HeartbeatFrames
      f == [e EXCEPT !.frameCount = IF beat THEN 0 ELSE @ + 1,
                     !.needsUpdate = IF beat THEN TRUE ELSE @]
  IN  IF ~mouseMoved /\ ~f.needsUpdate
      THEN requestAnimationFrame([f EXCEPT !.tickResult = "skip"])
      ELSE paintPass([f EXCEPT !.lastMouseX = f.mouseX,
                               !.lastMouseY = f.mouseY,
                               !.needsUpdate = FALSE], throws)


\* dirtyFrame with the motion threshold doubled.
dirtyFrameCoarse(w, throws) ==
  LET e == [w EXCEPT !.mouseX = Ease(w.mouseX, w.targetX),
                     !.mouseY = Ease(w.mouseY, w.targetY)]
      mouseMoved == \/ Abs(e.mouseX - e.lastMouseX) > 2 * MotionEpsilon
                    \/ Abs(e.mouseY - e.lastMouseY) > 2 * MotionEpsilon
      beat == e.frameCount + 1 >= HeartbeatFrames
      f == [e EXCEPT !.frameCount = IF beat THEN 0 ELSE @ + 1,
                     !.needsUpdate = IF beat THEN TRUE ELSE @]
  IN  IF ~mouseMoved /\ ~f.needsUpdate
      THEN requestAnimationFrame([f EXCEPT !.tickResult = "skip"])
      ELSE paintPass([f EXCEPT !.lastMouseX = f.mouseX,
                               !.lastMouseY = f.mouseY,
                               !.needsUpdate = FALSE], throws)


\* render() of the classes with the dirty-frame scheduler, past the
\* isRunning guard (and past the Firefox / missing-canvas exits of Hybrid).
dirtyFrame(w, throws) ==
  LET e == [w EXCEPT !.mouseX = Ease(w.mouseX, w.targetX),
                     !.mouseY = Ease(w.mouseY, w.targetY)]
      mouseMoved == \/ Abs(e.mouseX - e.lastMouseX) > MotionEpsilon
                    \/ Abs(e.mouseY - e.lastMouseY) > MotionEpsilon
      beat == e.frameCount + 1 >= HeartbeatFrames
      f == [e EXCEPT !.frameCount = IF beat THEN 0 ELSE @ + 1,
                     !.needsUpdate = IF beat THEN TRUE ELSE @]
  IN  IF ~mouseMoved /\ ~f.needsUpdate
      THEN requestAnimationFrame([f EXCEPT !.tickResult = "skip"])
      ELSE paintPass([f EXCEPT !.lastMouseX = f.mouseX,
                               !.lastMouseY = f.mouseY,
                               !.needsUpdate = FALSE], throws)

\* render() without the Firefox exit of HybridBackground
renderOnFirefoxToo(w, throws) ==
  IF ~w.isRunning THEN w
  ELSE
  CASE kind \in {"CanvasOpt", "Svg"} -> dirtyFrame(w, throws)
    [] kind = "Hybrid" ->
         IF ~hostFound
         THEN requestAnimationFrame([w EXCEPT !.tickResult = "idle"])
         ELSE dirtyFrame(w, throws)
    [] kind = "CanvasOrig" ->
         paintPass([w EXCEPT !.mouseX = Ease(w.mouseX, w.targetX),
                             !.mouseY = Ease(w.mouseY, w.targetY)], throws)
    [] kind = "LogoTilt" ->
         IF ~hostFound
         THEN \* this.element is null: this.element.style raises
              [w EXCEPT !.tickResult = "threw", !.threw = TRUE]
         ELSE requestAnimationFrame(
                [w EXCEPT !.mouseX = EaseTilt(w.mouseX, w.targetX),
                          !.mouseY = EaseTilt(w.mouseY, w.targetY),
                          !.tickResult = "paint", !.drew = TRUE])
    [] OTHER ->  \* "Shader": the next frame is requested first
         LET r == requestAnimationFrameUnkept(
                    [w EXCEPT !.frameCount = (@ + 1) % ShaderFrameSkip])
         IN  IF r.frameCount # 0
             THEN [r EXCEPT !.tickResult = "skip"]
             ELSE IF throws
                  THEN paintSurface([r EXCEPT !.tickResult = "threw",
                                              !.threw = TRUE, !.drew = TRUE])
                  ELSE paintSurface([r EXCEPT !.tickResult = "paint",
                                              !.drew = TRUE])

\* render() / update() / animate() of the instance's class.
render(w, throws) ==
  IF ~w.isRunning THEN w
  ELSE
  CASE kind \in {"CanvasOpt", "Svg"} -> dirtyFrame(w, throws)
    [] kind = "Hybrid" ->
         IF isFirefox \/ ~HasCanvas
         THEN requestAnimationFrame([w EXCEPT !.tickResult = "idle"])
         ELSE dirtyFrame(w, throws)
    [] kind = "CanvasOrig" ->
         paintPass([w EXCEPT !.mouseX = Ease(w.mouseX, w.targetX),
                             !.mouseY = Ease(w.mouseY, w.targetY)], throws)
    [] kind = "LogoTilt" ->
         IF ~hostFound
         THEN \* this.element is null: this.element.style raises
              [w EXCEPT !.tickResult = "threw", !.threw = TRUE]
         ELSE requestAnimationFrame(
                [w EXCEPT !.mouseX = EaseTilt(w.mouseX, w.targetX),
                          !.mouseY = EaseTilt(w.mouseY, w.targetY),
                          !.tickResult = "paint", !.drew = TRUE])
    [] OTHER ->  \* "Shader": the next frame is requested first
         LET r == requestAnimationFrameUnkept(
                    [w EXCEPT !.frameCount = (@ + 1) % ShaderFrameSkip])
         IN  IF r.frameCount # 0
             THEN [r EXCEPT !.tickResult = "skip"]
             ELSE IF throws
                  THEN paintSurface([r EXCEPT !.tickResult = "threw",
                                              !.threw = TRUE, !.drew = TRUE])
                  ELSE paintSurface([r EXCEPT !.tickResult = "paint",
                                              !.drew = TRUE])

(* ------------------------------ lifecycle methods --------------------- *)
\* start()
start(w, throws) ==
  IF ~w.isRunning
  THEN render([w EXCEPT !.isRunning = TRUE], throws)
  ELSE w

\* stop() that clears the flag and leaves the pending frame alone.
stopNoCancel(w) ==
  IF w.isRunning THEN [w EXCEPT !.isRunning = FALSE] ELSE w

\* stop()
stop(w) ==
  IF w.isRunning
  THEN cancelAnimationFrame([w EXCEPT !.isRunning = FALSE])
  ELSE w

\* The listeners init() registers for the class.
InitListeners ==
  CASE kind = "LogoTilt" -> {"mousemove", "mouseleave", "resize"}
    [] kind = "Shader"   -> {"resize"}
    [] kind = "Perlin"   -> {}
    [] kind = "Hybrid"   -> IF isFirefox THEN {"resize", "scroll"}
                            ELSE {"resize", "scroll", "mousemove", "mouseleave"}
    [] OTHER -> {"resize", "scroll", "mousemove", "mouseleave"}

\* destroy() that forgets the second registration of handleResize (scroll).
destroyKeepsScroll(w) ==
  LET d == [stop(w) EXCEPT !.listeners = @ \cap {"scroll"}]
  IN  IF kind \in {"Hybrid", "LogoTilt"} /\ ~hostFound
      THEN [d EXCEPT !.threw = TRUE]
      ELSE [d EXCEPT !.attached = FALSE]

\* destroy(): stop, detach the four handlers, remove the owned surface.
\* Hybrid without a hero section has no this.container, LogoTilt without its
\* element has no this.element: the last statements raise on undefined/null.
destroy(w) ==
  LET d == [stop(w) EXCEPT !.listeners = {}]
  IN  IF kind \in {"Hybrid", "LogoTilt"} /\ ~hostFound
      THEN [d EXCEPT !.threw = TRUE]
      ELSE [d EXCEPT !.attached = FALSE]  \* LogoTilt: its styles are reset

(* ------------------------------ construction -------------------------- *)
\* What window.WebGLRenderingContext && (canvas.getContext('webgl') ||
\* canvas.getContext('experimental-webgl')) can do: yield a context, yield
\* a falsy value, or raise.
WebGLProbes == {"context", "falsy", "raises"}

\* A probe that reports support whatever the host answers
isWebGLSupportedAlways == TRUE

\* isWebGLSupported(): !!(...) inside try, false from the catch clause
isWebGLSupported == webglProbe = "context"

\* The field initialisers and the constructor statements before init().
fieldsAtNew(w) ==
  LET centred == [w EXCEPT !.mouseX = InnerWidth \div 2,
                           !.mouseY = InnerHeight \div 2,
                           !.targetX = InnerWidth \div 2,
                           !.targetY = InnerHeight \div 2,
                           !.animationFrame = 0, !.isRunning = FALSE,
                           !.hexGrid = {}]
  IN  CASE kind \in DirtyKinds ->
             \* lastResizeTime = 0; lastWidth = 0; lastHeight = 0;
             \* lastMouseX = 0; lastMouseY = 0; needsUpdate = true;
             \* frameCount = 0
             [centred EXCEPT !.elapsed = ThrottleMs, !.lastWidth = 0,
                             !.lastHeight = 0, !.lastMouseX = 0,
                             !.lastMouseY = 0, !.needsUpdate = TRUE,
                             !.frameCount = 0]
        [] kind = "CanvasOrig" -> centred   \* this.hexGrid = []
        [] OTHER -> w   \* LogoTilt, Shader: set after the host-element check;
                        \* Perlin: no such field

\* The constructor with HybridBackground registering its listeners ahead of
\* the check for the hero section.
constructListensFirst(w, dh, sy, throws) ==
  LET n == fieldsAtNew(w)
  IN  CASE kind \in {"CanvasOpt", "CanvasOrig", "Svg"} ->
             start([handleResize([n EXCEPT !.attached = TRUE], dh, sy)
                      EXCEPT !.listeners = InitListeners], throws)
        [] kind = "Hybrid" ->
             IF ~hostFound THEN [n EXCEPT !.listeners = InitListeners]
             ELSE start([handleResize([n EXCEPT !.attached = TRUE], dh, sy)
                           EXCEPT !.listeners = InitListeners], throws)
        [] kind = "LogoTilt" ->
             IF ~hostFound THEN n   \* the constructor returns before its state
             ELSE start([handleResize(n, dh, sy)
                           EXCEPT !.listeners = InitListeners], throws)
        [] kind = "Perlin" ->
             \* init() prepends the container; no listener, no frame
             IF ~hostFound THEN n   \* 'Hero section not found'
             ELSE [n EXCEPT !.attached = TRUE]
        [] OTHER ->  \* "Shader"
             IF ~hostFound \/ ~isWebGLSupported
             THEN n   \* no hero section, or no WebGL: the constructor returns
             ELSE \* initThree() creates the renderer and calls animate();
                  \* the resize listener is added after it
                  [render(sizeSurface([n EXCEPT !.attached = TRUE,
                                                !.isRunning = TRUE],
                                      InnerWidth, dh), throws)
                     EXCEPT !.listeners = InitListeners]

\* new K(options): the constructor with init() and all it calls.
construct(w, dh, sy, throws) ==
  LET n == fieldsAtNew(w)
  IN  CASE kind \in {"CanvasOpt", "CanvasOrig", "Svg"} ->
             start([handleResize([n EXCEPT !.attached = TRUE], dh, sy)
                      EXCEPT !.listeners = InitListeners], throws)
        [] kind = "Hybrid" ->
             IF ~hostFound THEN n   \* 'Hero section not found': init returns
             ELSE start([handleResize([n EXCEPT !.attached = TRUE], dh, sy)
                           EXCEPT !.listeners = InitListeners], throws)
        [] kind = "LogoTilt" ->
             IF ~hostFound THEN n   \* the constructor returns before its state
             ELSE start([handleResize(n, dh, sy)
                           EXCEPT !.listeners = InitListeners], throws)
        [] kind = "Perlin" ->
             \* init() prepends the container; no listener, no frame
             IF ~hostFound THEN n   \* 'Hero section not found'
             ELSE [n EXCEPT !.attached = TRUE]
        [] OTHER ->  \* "Shader"
             IF ~hostFound \/ ~isWebGLSupported
             THEN n   \* no hero section, or no WebGL: the constructor returns
             ELSE \* initThree() creates the renderer and calls animate();
                  \* the resize listener is added after it
                  [render(sizeSurface([n EXCEPT !.attached = TRUE,
                                                !.isRunning = TRUE],
                                      InnerWidth, dh), throws)
                     EXCEPT !.listeners = InitListeners]

(* ------------------------------ steps --------------------------------- *)
\* The render body ran in the operation that produced w.
Ticked(w) == w.tickResult # "none"

\* A flag gathered since the latest tick: it starts afresh in the state that
\* tick left.
Since(flag) == IF tickResult # "none" THEN FALSE ELSE flag

\* A handler changed the target since the latest tick, the operation that
\* produced w included (the constructor's own assignment is no pointer move).
MovedBefore(w) ==
  \/ Since(movedSinceTick)
  \/ constructed /\ (w.targetX # targetX \/ w.targetY # targetY)

\* The tick that produced w from the current state was not a quiet one: the
\* target or the surface changed since the previous tick, or the eased
\* pointer is still moving.
Disturbed(w) ==
  \/ MovedBefore(w) \/ Since(resizedSinceTick) \/ w.accepted
  \/ w.mouseX # mouseX \/ w.mouseY # mouseY

KeepLast(log) ==
  IF Len(log) > HeartbeatFrames THEN SubSeq(log, 2, Len(log)) ELSE log

\* The state after an operation that left the instance as w and the host
\* with content height dh and scroll offset sy.
CommitBeside(w, dh, sy, p) ==
  /\ peer' = [p EXCEPT !.pending = @ \ w.cancelled]
  /\ isRunning' = w.isRunning
  /\ animationFrame' = w.animationFrame
  /\ mouseX' = w.mouseX /\ mouseY' = w.mouseY
  /\ targetX' = w.targetX /\ targetY' = w.targetY
  /\ lastMouseX' = w.lastMouseX /\ lastMouseY' = w.lastMouseY
  /\ needsUpdate' = w.needsUpdate
  /\ frameCount' = w.frameCount
  /\ width' = w.width /\ height' = w.height
  /\ centerX' = w.centerX /\ centerY' = w.centerY
  /\ elapsed' = w.elapsed
  /\ lastWidth' = w.lastWidth /\ lastHeight' = w.lastHeight
  /\ hexGrid' = w.hexGrid
  /\ accepted' = w.accepted
  /\ sinceQuery' = IF w.accepted THEN 0 ELSE w.sinceQuery
  /\ pending' = w.pending
  /\ listeners' = w.listeners
  /\ attached' = w.attached
  /\ docHeight' = dh /\ scrollY' = sy
  /\ threw' = w.threw
  /\ tickResult' = w.tickResult
  /\ drew' = w.drew
  /\ movedSinceTick' = MovedBefore(w)
  /\ pointerBusy' =
       IF constructed /\ Ticked(w) THEN pointerBusy /\ MovedBefore(w)
       ELSE pointerBusy
  /\ resizedSinceTick' = (Since(resizedSinceTick) \/ w.accepted)
  /\ paintLog' =
       IF observe /\ w.tickResult \in {"skip", "paint", "threw"}
          /\ kind \in DirtyKinds
       THEN IF Disturbed(w) THEN << >>
            ELSE KeepLast(Append(paintLog, w.tickResult # "skip"))
       ELSE paintLog
  /\ surface' = w.surface
  /\ UNCHANGED << kind, isFirefox, hostFound, observe, hexSize, hexFates,
                  supplied, options, layers, devicePixelRatio, webglProbe,
                  helpers >>

\* The same, the other instance on the page left to itself: the host
\* cancels the frames whose handles the operation passed to
\* cancelAnimationFrame, whoever requested them.
Commit(w, dh, sy) == CommitBeside(w, dh, sy, peer)

(* ------------------------------ options ------------------------------ *)
\* Option values are kept as integers: fractions in hundredths, true and
\* false as 1 and 0.  The colour, url and selector options are strings the
\* merge treats like every other key; they are left out.
\* The defaults object literal of the constructor
Defaults ==
  CASE kind \in {"CanvasOpt", "CanvasOrig"} ->
         [highlightOpacity |-> 15, highlightSize |-> 50, easing |-> 10,
          noiseIntensity |-> 2, hexEnabled |-> 1, hexSize |-> 30,
          hexLineWidth |-> 100, hexOpacity |-> 50, hexFadeRadius |-> 200,
          hexGlow |-> 2]
    [] kind = "Hybrid" ->
         [highlightOpacity |-> IF isFirefox THEN 18 ELSE 15,
          highlightSize |-> IF isFirefox THEN 38 ELSE 33,
          easing |-> IF isFirefox THEN 25 ELSE 30,
          hexOpacity |-> 9, visibilityRadius |-> 30,
          useBlur |-> IF isFirefox THEN 1 ELSE 0, blurAmount |-> 150,
          useMultiStopGradient |-> IF isFirefox THEN 1 ELSE 0,
          throttleDelay |-> IF isFirefox THEN 12 ELSE 0]
    [] kind = "Svg" ->
         [highlightOpacity |-> 15, highlightSize |-> 33, easing |-> 30,
          hexOpacity |-> 9, hexFadeRadius |-> 500]
    [] kind = "LogoTilt" ->
         [maxTilt |-> 15, perspective |-> 1000, easing |-> 15,
          scale |-> 105, resetOnLeave |-> 1, gyroscope |-> 0]
    [] OTHER -> [o \in {} |-> 0]

\* The options object the page's DOMContentLoaded handler passes
Instantiation ==
  CASE kind = "CanvasOpt" ->
         [highlightOpacity |-> 15, highlightSize |-> 33, easing |-> 30,
          noiseIntensity |-> 0, hexEnabled |-> 1, hexSize |-> hexSize,
          hexLineWidth |-> 100, hexOpacity |-> 9,
          hexFadeRadius |-> IF hexSize = HexSizeLow THEN HexFadeRadiusLow
                                                    ELSE HexFadeRadius,
          hexGlow |-> 0]
    [] kind = "CanvasOrig" ->
         [highlightOpacity |-> 15, highlightSize |-> 50, easing |-> 30,
          noiseIntensity |-> 1, hexEnabled |-> 1, hexSize |-> hexSize,
          hexLineWidth |-> 125, hexOpacity |-> 7,
          hexFadeRadius |-> IF hexSize = HexSizeLow THEN HexFadeRadiusLow
                                                    ELSE HexFadeRadius,
          hexGlow |-> 2]
    [] kind = "Hybrid" ->
         [highlightOpacity |-> 15, highlightSize |-> 33, easing |-> 30,
          visibilityRadius |-> 20]
    [] kind = "Svg" ->
         [highlightOpacity |-> 15, highlightSize |-> 33, easing |-> 30,
          hexOpacity |-> 15, hexFadeRadius |-> 500]
    [] kind = "LogoTilt" ->
         [maxTilt |-> 10, perspective |-> 1200, easing |-> 24, scale |-> 103]
    [] OTHER -> [o \in {} |-> 0]

\* A merge in which the target's own keys win
objectAssignKeepsTarget(target, source) ==
  [o \in DOMAIN target \cup DOMAIN source |->
     IF o \in DOMAIN target THEN target[o] ELSE source[o]]

\* Object.assign(target, source): every own key of source is written over
\* target, whatever its value.
objectAssign(target, source) ==
  [o \in DOMAIN target \cup DOMAIN source |->
     IF o \in DOMAIN source THEN source[o] ELSE target[o]]

\* The options as the page's instantiation leaves them; nothing painted yet.
PageOptions ==
  /\ supplied = Instantiation
  /\ options = objectAssign(Defaults, supplied)
  /\ layers = << >>

\* No canvas exists, or none is owned.
NoSurface == [width |-> 0, height |-> 0, scale |-> 0, painted |-> FALSE]

\* The record of an instance none of whose fields is set yet
BlankInstance ==
  [ isRunning |-> FALSE, animationFrame |-> 0,
    mouseX |-> 0, mouseY |-> 0, targetX |-> 0, targetY |-> 0,
    lastMouseX |-> 0, lastMouseY |-> 0,
    needsUpdate |-> FALSE, frameCount |-> 0,
    width |-> 0, height |-> 0, centerX |-> 0, centerY |-> 0,
    elapsed |-> ThrottleMs, pending |-> {}, listeners |-> {},
    attached |-> FALSE, lastWidth |-> 0, lastHeight |-> 0, hexGrid |-> {},
    sinceQuery |-> ThrottleMs, surface |-> NoSurface,
    taken |-> {}, cancelled |-> {},
    threw |-> FALSE, tickResult |-> "none", drew |-> FALSE,
    accepted |-> FALSE ]

\* noise() has not been called.
NoNoiseCall == [x |-> 0, y |-> 0, value |-> 0, done |-> FALSE]

\* debounce(func, wait) has returned and the function it returned has not
\* been called: "let timeout" is undefined (0), the host holds no timer.
\*   timers    : the host's pending timers, each with the arguments its
\*               closure "later" holds and the time since it was set
\*   nextId    : the handle the next setTimeout returns
\*   calls     : calls of the debounced function so far
\*   args      : the arguments of the most recent call
\*   since     : time since the most recent call
\*   invoked   : invocations of func so far
\*   funcArgs  : the arguments func was last invoked with
\*   served    : func was invoked since the most recent call
NoDebouncedCall ==
  [ timeout |-> 0, timers |-> {}, nextId |-> 1, calls |-> 0, args |-> 0,
    since |-> 0, invoked |-> 0, funcArgs |-> 0, served |-> FALSE ]

\* initMouseReactiveBackground() has returned: --mouse-x and --mouse-y are
\* 50%, --gradient-size is 0%, lastUpdate is 0 and Date.now() far beyond it.
\*   frames    : the events held by the callbacks passed to
\*               requestAnimationFrame and not yet run, oldest first
\*   open      : Date.now() - lastUpdate > throttleDelay
\*   left      : mouseout was handled and no mousemove received since
\*   events    : mousemove and mouseout events handled so far
NoGradient ==
  [ mouseX |-> 50, mouseY |-> 50, size |-> 0, frames |-> << >>,
    open |-> TRUE, left |-> FALSE, events |-> 0 ]

\* None of the helpers has been called.
NoHelperCalls ==
  /\ noiseCall = NoNoiseCall /\ debounced = NoDebouncedCall
  /\ gradient = NoGradient

\* No instance exists yet: the variables that neither the page nor the
\* options determine.
NoInstance ==
  /\ constructed = FALSE /\ hostRef = FALSE
  /\ isRunning = FALSE /\ animationFrame = 0
  /\ targetX = 0 /\ targetY = 0
  /\ lastMouseX = 0 /\ lastMouseY = 0
  /\ needsUpdate = FALSE /\ frameCount = 0
  /\ centerX = 0 /\ centerY = 0
  /\ elapsed = ThrottleMs
  /\ lastWidth = 0 /\ lastHeight = 0
  /\ pending = {} /\ listeners = {} /\ attached = FALSE
  /\ threw = FALSE /\ tickResult = "none" /\ drew = FALSE
  /\ accepted = FALSE /\ sinceQuery = ThrottleMs
  /\ movedSinceTick = FALSE /\ resizedSinceTick = FALSE
  /\ pointerBusy = TRUE
  /\ paintLog = << >>
  /\ hexFates = {}
  /\ surface = NoSurface

\* The state before the page's DOMContentLoaded handler constructs the
\* instance, for a run over the classes ks with n events to come, on a page
\* whose content is dh high and that is scrolled to one of the offsets sys.
InitPage(ks, n, obs, dh, sys, dprs) ==
  /\ kind \in ks
  /\ eventsLeft = n /\ observe = obs
  /\ isFirefox \in (IF kind = "Hybrid" THEN BOOLEAN ELSE {FALSE})
  /\ hostFound \in (IF kind \in {"Hybrid", "LogoTilt", "Shader", "Perlin"}
                    THEN BOOLEAN ELSE {TRUE})
  /\ NoInstance
  /\ NoHelperCalls
  /\ mouseX = 0 /\ mouseY = 0
  /\ width = 0 /\ height = 0
  /\ hexGrid = {} /\ hexSize = HexSize
  /\ PageOptions
  /\ docHeight = dh /\ scrollY \in sys
  /\ devicePixelRatio \in dprs
  /\ webglProbe \in (IF kind = "Shader" THEN WebGLProbes ELSE {"context"})

\* The same, the instance being the only one on the page.
InitFor(ks, n, obs, dh, sys, dprs) ==
  /\ InitPage(ks, n, obs, dh, sys, dprs)
  /\ peer = BlankInstance

InitAt(ks, n, obs, dh, sys) == InitFor(ks, n, obs, dh, sys, {DprOne})

InitOn(ks, n, obs, dh) == InitAt(ks, n, obs, dh, {0})

InitWith(ks, n, obs) == InitOn(ks, n, obs, InnerHeight)

Init == InitWith(Kinds, MaxEvents, FALSE)

\* DOMContentLoaded: window.x = new K({...})
Construct ==
  /\ ~constructed
  /\ \E throws \in BOOLEAN :
       LET w == construct(Cur, docHeight, scrollY, throws)
       IN  /\ Commit(w, docHeight, scrollY)
           /\ constructed' = TRUE
           /\ hostRef' = ~w.threw
  /\ UNCHANGED eventsLeft

\* The page calls instance.start()
Start ==
  /\ constructed /\ hostRef
  /\ Cardinality(pending) < MaxPending
  /\ \E throws \in BOOLEAN :
       Commit(IF kind \in LifecycleKinds THEN start(Cur, throws)
              ELSE [Cur EXCEPT !.threw = TRUE],   \* not a function
              docHeight, scrollY)
  /\ UNCHANGED << constructed, hostRef, eventsLeft >>

\* The page calls instance.stop()
Stop ==
  /\ constructed /\ hostRef
  /\ Commit(IF kind \in LifecycleKinds THEN stop(Cur)
            ELSE [Cur EXCEPT !.threw = TRUE], docHeight, scrollY)
  /\ UNCHANGED << constructed, hostRef, eventsLeft >>

\* The page calls instance.destroy()
Destroy ==
  /\ constructed /\ hostRef
  /\ Commit(IF kind \in LifecycleKinds THEN destroy(Cur)
            ELSE [Cur EXCEPT !.threw = TRUE], docHeight, scrollY)
  /\ UNCHANGED << constructed, hostRef, eventsLeft >>

\* The host runs a pending animation-frame callback.
Frame ==
  /\ \E id \in pending, throws \in BOOLEAN :
       Commit(render([Cur EXCEPT !.pending = @ \ {id}], throws),
              docHeight, scrollY)
  /\ UNCHANGED << constructed, hostRef, eventsLeft >>

\* Where a mousemove event finds the pointer in the viewport: two opposite
\* corners, the middle of the top edge, and one unit right of the centre.
PointerPositions ==
  { [clientX |-> 0, clientY |-> 0],
    [clientX |-> InnerWidth, clientY |-> InnerHeight],
    [clientX |-> InnerWidth \div 2, clientY |-> 0],
    [clientX |-> (InnerWidth \div 2) + 1, clientY |-> InnerHeight \div 2] }

\* The pointer moves over the document.
MouseMove ==
  /\ constructed
  /\ eventsLeft > 0 /\ eventsLeft' = eventsLeft - 1
  /\ \E e \in PointerPositions :
       Commit(IF "mousemove" \in listeners
              THEN handleMouseMove(Cur, e.clientX, e.clientY, scrollY)
              ELSE Cur,
              docHeight, scrollY)
  /\ UNCHANGED << constructed, hostRef >>

\* The pointer leaves the document.
MouseLeave ==
  /\ constructed
  /\ eventsLeft > 0 /\ eventsLeft' = eventsLeft - 1
  /\ Commit(IF "mouseleave" \in listeners
            THEN handleMouseLeave(Cur, scrollY) ELSE Cur,
            docHeight, scrollY)
  /\ UNCHANGED << constructed, hostRef >>

\* The window is resized; the content area takes a new height.
Resize ==
  /\ constructed
  /\ eventsLeft > 0 /\ eventsLeft' = eventsLeft - 1
  /\ \E dh \in {InnerHeight, TallDoc} :
       Commit(IF "resize" \in listeners
              THEN handleResize(Cur, dh, scrollY) ELSE Cur,
              dh, scrollY)
  /\ UNCHANGED << constructed, hostRef >>

\* The page is scrolled.
Scroll ==
  /\ constructed
  /\ eventsLeft > 0 /\ eventsLeft' = eventsLeft - 1
  /\ \E sy \in {0, ScrollMax} \ {scrollY} :
       Commit(IF "scroll" \in listeners
              THEN handleResize(Cur, docHeight, sy) ELSE Cur,
              docHeight, sy)
  /\ UNCHANGED << constructed, hostRef >>

\* Wall-clock time passes.
Clock ==
  /\ constructed
  /\ elapsed < ThrottleMs \/ sinceQuery < ThrottleMs
  /\ CommitBeside([Cur EXCEPT !.elapsed = Min(@ + ClockStep, ThrottleMs),
                              !.sinceQuery = Min(@ + ClockStep, ThrottleMs)],
                  docHeight, scrollY,
                  [peer EXCEPT !.elapsed = Min(@ + ClockStep, ThrottleMs),
                               !.sinceQuery = Min(@ + ClockStep, ThrottleMs)])
  /\ UNCHANGED << constructed, hostRef, eventsLeft >>

Next ==
  \/ Construct \/ Start \/ Stop \/ Destroy \/ Frame
  \/ MouseMove \/ MouseLeave \/ Resize \/ Scroll \/ Clock

Spec == Init /\ [][Next]_vars

(* ------------------------------ two instances on one page ------------ *)
\* The other instance as an operation on it finds it
PeerCur ==
  [peer EXCEPT !.taken = pending \cup {animationFrame}, !.cancelled = {},
               !.threw = FALSE, !.tickResult = "none", !.drew = FALSE,
               !.accepted = FALSE]

\* The state after an operation that left the other instance as p: the host
\* cancels the frames whose handles the operation passed to
\* cancelAnimationFrame, whoever requested them.
PeerCommit(p) ==
  /\ peer' = p
  /\ pending' = pending \ p.cancelled
  /\ UNCHANGED << kind, isFirefox, hostFound, constructed, hostRef, isRunning,
                  animationFrame, mouseX, mouseY, targetX, targetY, lastMouseX,
                  lastMouseY, needsUpdate, frameCount, width, height, centerX,
                  centerY, elapsed, listeners, attached, docHeight,
                  scrollY, threw, tickResult, drew, movedSinceTick,
                  resizedSinceTick, pointerBusy, paintLog, observe,
                  lastWidth, lastHeight, hexGrid, hexSize, accepted,
                  sinceQuery, hexFates, supplied, options, layers, surface,
                  devicePixelRatio, webglProbe, helpers >>

\* The page calls start() / stop() / destroy() of the other instance.
PeerStart ==
  /\ Cardinality(peer.pending) < MaxPending
  /\ \E throws \in BOOLEAN : PeerCommit(start(PeerCur, throws))
  /\ UNCHANGED eventsLeft

PeerStop == PeerCommit(stop(PeerCur)) /\ UNCHANGED eventsLeft

PeerDestroy == PeerCommit(destroy(PeerCur)) /\ UNCHANGED eventsLeft

\* The host runs a pending animation-frame callback of the other instance.
PeerFrame ==
  /\ \E id \in peer.pending, throws \in BOOLEAN :
       PeerCommit(render([PeerCur EXCEPT !.pending = @ \ {id}], throws))
  /\ UNCHANGED eventsLeft

\* Where a mousemove event finds the pointer when the other instance handles
\* it: the far corner of the viewport, away from the pointer it starts with.
PeerPointerPositions ==
  { [clientX |-> InnerWidth, clientY |-> InnerHeight] }

\* A mousemove / resize event reaches the handler of the other instance.
PeerMouseMove ==
  /\ eventsLeft > 0 /\ eventsLeft' = eventsLeft - 1
  /\ "mousemove" \in peer.listeners
  /\ \E e \in PeerPointerPositions :
       PeerCommit(handleMouseMove(PeerCur, e.clientX, e.clientY, scrollY))

PeerResize ==
  /\ eventsLeft > 0 /\ eventsLeft' = eventsLeft - 1
  /\ "resize" \in peer.listeners
  /\ PeerCommit(handleResize(PeerCur, docHeight, scrollY))

PeerStep ==
  \/ PeerStart \/ PeerStop \/ PeerDestroy \/ PeerFrame
  \/ PeerMouseMove \/ PeerResize

\* An operation on the instance itself, or an event it handles
OwnStep ==
  \/ Construct \/ Start \/ Stop \/ Destroy \/ Frame
  \/ MouseMove \/ MouseLeave \/ Resize \/ Scroll

NextPair == Next \/ PeerStep

\* A page on which an optimized CanvasBackground was constructed before the
\* DOMContentLoaded handler constructs another.
InitPair ==
  /\ InitPage({"CanvasOrig"}, PairEvents, FALSE, InnerHeight, {0}, {DprOne})
  /\ peer = construct(BlankInstance, docHeight, scrollY, FALSE)

SpecPair == InitPair /\ [][NextPair]_vars

\* The ratios a host may report: none, a half, one, two and three.
DevicePixelRatios == {0, 1, DprOne, DprCap, DprCap + DprOne}

\* The classes that own a canvas, on hosts of every pixel ratio.
InitSurface ==
  InitFor(SurfaceKinds, SurfaceEvents, FALSE, InnerHeight, {0},
          DevicePixelRatios)

SpecSurface == InitSurface /\ [][Next]_vars

\* The optimized CanvasBackground alone, the pointer moving more often.
InitMotion == InitWith({"CanvasOpt"}, MotionEvents, FALSE)

SpecMotion == InitMotion /\ [][Next]_vars

\* The optimized CanvasBackground alone, with the history of quiet ticks kept.
InitIdle == InitWith({"CanvasOpt"}, IdleEvents, TRUE)

SpecIdle == InitIdle /\ [][Next]_vars

\* Both versions of CanvasBackground on a long page that is then resized.
InitResize ==
  InitOn({"CanvasOpt", "CanvasOrig"}, ResizeEvents, FALSE, LongDoc)

SpecResize == InitResize /\ [][Next]_vars

\* The classes with a pointer-leave reset to a centre, constructed on a tall
\* page that is loaded at the top or scrolled.
InitLeave ==
  InitAt({"CanvasOpt", "Hybrid", "Svg"}, LeaveEvents, FALSE, TallDoc,
         {0, ScrollMax})

SpecLeave == InitLeave /\ [][Next]_vars

\* LogoTilt constructed on a tall page that is loaded at the top or scrolled,
\* where the logo has left the middle of the viewport.
InitTilt ==
  InitAt({"LogoTilt"}, TiltEvents, FALSE, TallDoc, {0, ScrollMax})

SpecTilt == InitTilt /\ [][Next]_vars

\* HybridBackground constructed on a page whose hero section is as high as
\* the viewport, loaded at the top or scrolled: scrolled, the lower part of
\* the viewport lies below the hero section.
InitHero ==
  InitAt({"Hybrid"}, HeroEvents, FALSE, InnerHeight, {0, ScrollMax})

SpecHero == InitHero /\ [][Next]_vars

(* ------------------------------ the grid generator alone -------------- *)
\* Surfaces the generator is applied to: the sizes of the page above and
\* sizes that are whole multiples of the vertical pitch (45 = 20 * 1.5 * 1.5).
SurfaceWidths == {InnerWidth, 52, 104, 200}

SurfaceHeights == {InnerHeight, 45, TallDoc, 90, LongDoc}

HexSizes == {HexSize, HexSizeLow}

\* An instance of either CanvasBackground with its size and options set and
\* no grid generated yet.
InitGrid ==
  /\ kind \in {"CanvasOpt", "CanvasOrig"}
  /\ isFirefox = FALSE /\ hostFound = TRUE
  /\ eventsLeft = 0 /\ observe = FALSE
  /\ NoInstance
  /\ NoHelperCalls
  /\ mouseX = 0 /\ mouseY = 0
  /\ width \in SurfaceWidths /\ height \in SurfaceHeights
  /\ hexSize \in HexSizes /\ hexGrid = {}
  /\ PageOptions
  /\ docHeight = height /\ scrollY = 0
  /\ devicePixelRatio = DprOne /\ webglProbe = "context"
  /\ peer = BlankInstance

\* this.generateHexGrid()
GenerateHexGrid ==
  /\ hexGrid = {}
  /\ hexGrid' = generateHexGrid(Cur).hexGrid
  /\ UNCHANGED << kind, isFirefox, hostFound, constructed, hostRef, isRunning,
                  animationFrame, mouseX, mouseY, targetX, targetY, lastMouseX,
                  lastMouseY, needsUpdate, frameCount, width, height, centerX,
                  centerY, elapsed, pending, listeners, attached, docHeight,
                  scrollY, threw, tickResult, drew, movedSinceTick,
                  resizedSinceTick, pointerBusy, paintLog, observe, eventsLeft,
                  lastWidth, lastHeight, hexSize, accepted, sinceQuery,
                  hexFates, supplied, options, layers, surface,
                  devicePixelRatio, webglProbe, peer, helpers >>

SpecGrid == InitGrid /\ [][GenerateHexGrid]_vars

(* ------------------------------ the hexagon layer --------------------- *)
\* this.options.hexFadeRadius: the low-performance options go together
FadeRadius == IF hexSize = HexSizeLow THEN HexFadeRadiusLow ELSE HexFadeRadius

\* hex.x and hex.y in whole pixels
HexX(c) == TruncDiv(c.x * c.size * Sqrt3Milli, 4000)

HexY(c) == TruncDiv(c.y * c.size, 4)

\* dx * dx + dy * dy for the cell c and the eased pointer of w
DistanceSq(c, w) ==
  LET dx == HexX(c) - w.mouseX
      dy == HexY(c) - w.mouseY
  IN  dx * dx + dy * dy

\* The whole r with lo <= r < hi and r * r <= n < (r + 1) * (r + 1), by
\* bisection
RECURSIVE SqrtIn(_, _, _)
SqrtIn(lo, hi, n) ==
  IF hi - lo <= 1 THEN lo
  ELSE LET mid == (lo + hi) \div 2
       IN  IF mid * mid <= n THEN SqrtIn(mid, hi, n) ELSE SqrtIn(lo, mid, n)

\* Math.sqrt(n) cut to whole pixels, for the squared distances of a surface
\* LongSurface high
Sqrt(n) == SqrtIn(0, 2 * LongSurface, n)

\* Math.sqrt(n) > r and Math.sqrt(n) < r for a whole r: the root is its
\* whole part and a fraction that is zero only for a perfect square.
SqrtExceeds(n, r) == Sqrt(n) > r \/ (Sqrt(n) = r /\ n > Sqrt(n) * Sqrt(n))

SqrtBelow(n, r) == Sqrt(n) < r

\* const visibilityRadius = fadeRadius * 1.5 (both radii of the page are even)
VisibilityRadius == (3 * FadeRadius) \div 2

\* maxOpacity as a count of the unit 1 / (HexOpacityDen * fadeRadius^3)
MaxOpacity == HexOpacityNum * FadeRadius * FadeRadius * FadeRadius

\* The falloff without its "1 -"
OpacityRising(distance) == HexOpacityNum * distance * distance * distance

\* maxOpacity * Math.pow(1 - distance / fadeRadius, 3), in the same unit
Opacity(distance) ==
  HexOpacityNum * (FadeRadius - distance) * (FadeRadius - distance)
    * (FadeRadius - distance)

\* The viewport test with its lower half missing
OutsideViewportAbove(c, sy) ==
  /\ kind = "CanvasOpt"
  /\ c.y * c.size < 4 * (sy - ViewportBuffer)

\* The viewport test of the optimized class (the first version has none):
\* hex.y < viewportTop - viewportBuffer || hex.y > viewportBottom + viewportBuffer
\* (hex.y is c.y * c.size / 4: the comparison is made on the quarters)
OutsideViewport(c, sy) ==
  /\ kind = "CanvasOpt"
  /\ \/ c.y * c.size < 4 * (sy - ViewportBuffer)
     \/ c.y * c.size > 4 * (sy + InnerHeight + ViewportBuffer)

\* distance > visibilityRadius, with visibilityRadius = fadeRadius * 1.5
TooFar(c, w) == 4 * DistanceSq(c, w) > 9 * FadeRadius * FadeRadius

\* The body of the loop with the viewport test lacking its buffer
hexFateNoBuffer(c, w, sy) ==
  IF kind = "CanvasOpt" /\ (HexY(c) < sy \/ HexY(c) > sy + InnerHeight)
  THEN [hex |-> c, fate |-> "culled", opacity |-> 0]
  ELSE IF TooFar(c, w)
  THEN [hex |-> c, fate |-> "far", opacity |-> 0]
  ELSE IF DistanceSq(c, w) < FadeRadius * FadeRadius
  THEN [hex |-> c, fate |-> "drawn", opacity |-> Opacity(Sqrt(DistanceSq(c, w)))]
  ELSE [hex |-> c, fate |-> "faint", opacity |-> 0]

\* The body of the loop with the visibility radius at twice the fade radius
hexFateWide(c, w, sy) ==
  IF OutsideViewport(c, sy)
  THEN [hex |-> c, fate |-> "culled", opacity |-> 0]
  ELSE IF DistanceSq(c, w) > 4 * FadeRadius * FadeRadius
  THEN [hex |-> c, fate |-> "far", opacity |-> 0]
  ELSE IF DistanceSq(c, w) < FadeRadius * FadeRadius
  THEN [hex |-> c, fate |-> "drawn", opacity |-> Opacity(Sqrt(DistanceSq(c, w)))]
  ELSE [hex |-> c, fate |-> "faint", opacity |-> 0]

\* The squared-distance tests with the cells on the fade radius drawn as well
hexFateSquaredLoose(c, w) ==
  IF TooFar(c, w)
  THEN [hex |-> c, fate |-> "far", opacity |-> 0]
  ELSE IF DistanceSq(c, w) <= FadeRadius * FadeRadius
  THEN [hex |-> c, fate |-> "drawn", opacity |-> Opacity(Sqrt(DistanceSq(c, w)))]
  ELSE [hex |-> c, fate |-> "faint", opacity |-> 0]

\* The distance tests of the optimized loop, on squared distances:
\*   if (distanceSq > visibilityRadiusSq) continue;
\*   if (distanceSq < fadeRadiusSq) { distance = Math.sqrt(distanceSq); ... }
hexFateSquared(c, w) ==
  IF TooFar(c, w)
  THEN [hex |-> c, fate |-> "far", opacity |-> 0]
  ELSE IF DistanceSq(c, w) < FadeRadius * FadeRadius
  THEN [hex |-> c, fate |-> "drawn", opacity |-> Opacity(Sqrt(DistanceSq(c, w)))]
  ELSE [hex |-> c, fate |-> "faint", opacity |-> 0]

\* The root-distance tests with the fade test taken against the visibility
\* radius
hexFateRootWide(c, w) ==
  IF SqrtExceeds(DistanceSq(c, w), VisibilityRadius)
  THEN [hex |-> c, fate |-> "far", opacity |-> 0]
  ELSE IF SqrtBelow(DistanceSq(c, w), VisibilityRadius)
  THEN [hex |-> c, fate |-> "drawn", opacity |-> Opacity(Sqrt(DistanceSq(c, w)))]
  ELSE [hex |-> c, fate |-> "faint", opacity |-> 0]

\* The distance tests of the first version's loop, on the distance:
\*   const distance = Math.sqrt(dx * dx + dy * dy);
\*   if (distance > visibilityRadius) continue;
\*   if (distance < fadeRadius) { ... }
hexFateRoot(c, w) ==
  IF SqrtExceeds(DistanceSq(c, w), VisibilityRadius)
  THEN [hex |-> c, fate |-> "far", opacity |-> 0]
  ELSE IF SqrtBelow(DistanceSq(c, w), FadeRadius)
  THEN [hex |-> c, fate |-> "drawn", opacity |-> Opacity(Sqrt(DistanceSq(c, w)))]
  ELSE [hex |-> c, fate |-> "faint", opacity |-> 0]

\* The body of the loop "for (const hex of this.hexGrid)" for the cell c:
\*   "culled" : skipped by the viewport test
\*   "far"    : skipped by the visibility radius, before "let opacity"
\*   "faint"  : opacity declared as 0, nothing drawn
\*   "drawn"  : opacity computed and drawHexagon(hex.x, hex.y, hex.size, opacity)
hexFate(c, w, sy) ==
  IF OutsideViewport(c, sy)
  THEN [hex |-> c, fate |-> "culled", opacity |-> 0]
  ELSE IF kind = "CanvasOrig" THEN hexFateRoot(c, w)
  ELSE hexFateSquared(c, w)

\* The hexagon loop of render(): hexEnabled and a non-empty grid
drawHexagons(w, sy) == {hexFate(c, w, sy) : c \in w.hexGrid}

\* Where the eased pointer is when the layer is drawn: on the cell centres
\* (0, 0), (0, 90) and (0, 540), at one fade radius from (0, 540), and off
\* the axis of the cells.
PointerXs == {0, InnerWidth \div 2}

PointerYs == {0, 40, 90, 240, 540}

ScrollOffsets == {0, ScrollMax, 540}

\* An instance of either CanvasBackground on a long narrow surface, its grid
\* generated, before a paint pass.
InitCells ==
  /\ kind \in {"CanvasOpt", "CanvasOrig"}
  /\ isFirefox = FALSE /\ hostFound = TRUE
  /\ eventsLeft = 0 /\ observe = FALSE
  /\ NoInstance
  /\ NoHelperCalls
  /\ mouseX \in PointerXs /\ mouseY \in PointerYs
  /\ width = InnerWidth /\ height = LongSurface
  /\ hexSize \in HexSizes /\ hexGrid = GridCells(width, height, hexSize)
  /\ PageOptions
  /\ docHeight = height /\ scrollY \in ScrollOffsets
  /\ devicePixelRatio = DprOne /\ webglProbe = "context"
  /\ peer = BlankInstance

\* The hexagon layer of one paint pass
DrawHexagons ==
  /\ hexFates = {}
  /\ hexFates' = drawHexagons(Cur, scrollY)
  /\ UNCHANGED << kind, isFirefox, hostFound, constructed, hostRef, isRunning,
                  animationFrame, mouseX, mouseY, targetX, targetY, lastMouseX,
                  lastMouseY, needsUpdate, frameCount, width, height, centerX,
                  centerY, elapsed, pending, listeners, attached, docHeight,
                  scrollY, threw, tickResult, drew, movedSinceTick,
                  resizedSinceTick, pointerBusy, paintLog, observe, eventsLeft,
                  lastWidth, lastHeight, hexGrid, hexSize, accepted,
                  sinceQuery, supplied, options, layers, surface,
                  devicePixelRatio, webglProbe, peer, helpers >>

SpecCells == InitCells /\ [][DrawHexagons]_vars

(* ------------------------------ the layers of a paint pass ------------ *)
\* JavaScript truthiness of an option value
Truthy(v) == v # 0

\* The hexagon loop of the pass reaches drawHexagon() for some cell.
HexagonsPainted(w, sy) ==
  /\ Truthy(options.hexEnabled) /\ w.hexGrid # {}
  /\ \E f \in drawHexagons(w, sy) : f.fate \in {"drawn", "faint"}

\* The noise overlay, which only the first version still has
NoisePainted == kind = "CanvasOrig" /\ options.noiseIntensity > 0

\* The paint pass with the hexagon loop ahead of the radial gradient
layersOfPassHexFirst(w, sy) ==
  << "clear", "base" >>
    \o (IF HexagonsPainted(w, sy) THEN << "hexagons" >> ELSE << >>)
    \o << "highlight" >>
    \o (IF NoisePainted THEN << "noise" >> ELSE << >>)

\* The draw calls of render() in program order: clearRect, the fillRect of
\* the linear gradient, the fillRect of the radial gradient under 'lighter',
\* the hexagon loop under 'source-over', the noise tiles under 'overlay'.
layersOfPass(w, sy) ==
  << "clear", "base", "highlight" >>
    \o (IF HexagonsPainted(w, sy) THEN << "hexagons" >> ELSE << >>)
    \o (IF NoisePainted THEN << "noise" >> ELSE << >>)

\* The pass up to the layer whose draw call raises (0: none does).
paintLayers(w, sy, failAt) ==
  LET all == layersOfPass(w, sy)
  IN  IF failAt = 0 \/ failAt > Len(all) THEN all
      ELSE SubSeq(all, 1, failAt - 1)

\* The options the pass reads, given or left to their defaults, and one key
\* the class does not know.
VariedOptions == {"hexEnabled", "noiseIntensity", "easing", "glitter"}

OptionChoices(o) == IF o = "glitter" THEN {1} ELSE {0, 1}

\* The options objects a caller may pass: the page's, with each varied
\* option left out or set.
SuppliedObjects ==
  LET kept == [o \in DOMAIN Instantiation \ VariedOptions |-> Instantiation[o]]
  IN  UNION { { objectAssign(kept, f) :
                  f \in { g \in [os -> {0, 1}] :
                            \A o \in os : g[o] \in OptionChoices(o) } } :
              os \in SUBSET VariedOptions }

\* Pointer positions of a pass: over the first cells, and at the far end of
\* the surface.
PaintPointerYs == {0, LongSurface}

\* An instance of either CanvasBackground on a long narrow surface, built
\* with one of the options objects, before a paint pass.
InitPaint ==
  /\ kind \in {"CanvasOpt", "CanvasOrig"}
  /\ isFirefox = FALSE /\ hostFound = TRUE
  /\ eventsLeft = 0 /\ observe = FALSE
  /\ NoInstance
  /\ NoHelperCalls
  /\ mouseX = InnerWidth \div 2 /\ mouseY \in PaintPointerYs
  /\ width = InnerWidth /\ height = LongSurface
  /\ hexSize \in HexSizes
  /\ supplied \in SuppliedObjects
  /\ options = objectAssign(Defaults, supplied)
  /\ layers = << >>
  /\ hexGrid = IF Truthy(options.hexEnabled)
               THEN GridCells(width, height, hexSize) ELSE {}
  /\ docHeight = height /\ scrollY = 0
  /\ devicePixelRatio = DprOne /\ webglProbe = "context"
  /\ peer = BlankInstance

\* One paint pass
PaintLayers ==
  /\ layers = << >>
  /\ \E failAt \in 0 .. 5 : layers' = paintLayers(Cur, scrollY, failAt)
  /\ layers' # << >>
  /\ UNCHANGED << kind, isFirefox, hostFound, constructed, hostRef, isRunning,
                  animationFrame, mouseX, mouseY, targetX, targetY, lastMouseX,
                  lastMouseY, needsUpdate, frameCount, width, height, centerX,
                  centerY, elapsed, pending, listeners, attached, docHeight,
                  scrollY, threw, tickResult, drew, movedSinceTick,
                  resizedSinceTick, pointerBusy, paintLog, observe, eventsLeft,
                  lastWidth, lastHeight, hexGrid, hexSize, accepted,
                  sinceQuery, hexFates, supplied, options, surface,
                  devicePixelRatio, webglProbe, peer, helpers >>

SpecPaint == InitPaint /\ [][PaintLayers]_vars

(* ------------------------------ the options merge alone --------------- *)
\* this.options before the constructor assigns it
NoOptions == [o \in {} |-> 0]

\* A class that takes options, about to be constructed with one of the
\* options objects.
InitOptions ==
  /\ kind \in {"CanvasOpt", "CanvasOrig", "Hybrid"}
  /\ isFirefox \in (IF kind = "Hybrid" THEN BOOLEAN ELSE {FALSE})
  /\ hostFound = TRUE
  /\ eventsLeft = 0 /\ observe = FALSE
  /\ NoInstance
  /\ NoHelperCalls
  /\ mouseX = 0 /\ mouseY = 0
  /\ width = 0 /\ height = 0
  /\ hexSize \in (IF kind = "Hybrid" THEN {HexSize} ELSE HexSizes)
  /\ hexGrid = {}
  /\ supplied \in SuppliedObjects
  /\ options = NoOptions
  /\ layers = << >>
  /\ docHeight = InnerHeight /\ scrollY = 0
  /\ devicePixelRatio = DprOne /\ webglProbe = "context"
  /\ peer = BlankInstance

\* this.options = Object.assign({ ...defaults }, options)
ObjectAssign ==
  /\ options = NoOptions
  /\ options' = objectAssign(Defaults, supplied)
  /\ UNCHANGED << kind, isFirefox, hostFound, constructed, hostRef, isRunning,
                  animationFrame, mouseX, mouseY, targetX, targetY, lastMouseX,
                  lastMouseY, needsUpdate, frameCount, width, height, centerX,
                  centerY, elapsed, pending, listeners, attached, docHeight,
                  scrollY, threw, tickResult, drew, movedSinceTick,
                  resizedSinceTick, pointerBusy, paintLog, observe, eventsLeft,
                  lastWidth, lastHeight, hexGrid, hexSize, accepted,
                  sinceQuery, hexFates, supplied, layers, surface,
                  devicePixelRatio, webglProbe, peer, helpers >>

SpecOptions == InitOptions /\ [][ObjectAssign]_vars

(* ------------------------------ the noise function ------------------- *)
\* Angles are in hundredths of a radian, sines and noise values in
\* thousandths.
Pi == 314

TwoPiFine == 62832        \* 2 * Math.PI in ten-thousandths of a radian

\* Math.sin(a) for 0 <= a <= Pi, by Bhaskara's quotient
\* 16 a (pi - a) / (5 pi^2 - 4 a (pi - a)), within a hundredth of the sine
SinHalfTurn(a) ==
  (16000 * (a * (Pi - a))) \div (493480 - 4 * (a * (Pi - a)))

\* Math.sin(a) for a >= 0: the angle is taken modulo 2 pi, and the second
\* half turn mirrors the first.
Sin(a) ==
  LET r == ((a * 100) % TwoPiFine) \div 100
  IN  IF r <= Pi THEN SinHalfTurn(r) ELSE 0 - SinHalfTurn(Min(r - Pi, Pi))

\* First version:
\*   return (Math.sin(x * 0.01) + Math.sin(y * 0.01)) * 0.5 + 0.5
noiseSimple(x, y) == TruncDiv(Sin(x) + Sin(y), 2) + 500

\* Optimized version: four frequencies weighted 0.4, 0.3, 0.2 and 0.1,
\*   return (noise1 + noise2 + noise3 + noise4) * 0.5 + 0.5
noiseImproved(x, y) ==
  LET noise1 == (Sin(3 * x) + Sin(3 * y)) * 4
      noise2 == (Sin(6 * x + 30) + Sin(6 * y + 10)) * 3
      noise3 == (Sin(12 * x + 70) + Sin(12 * y + 50)) * 2
      noise4 == (Sin(24 * x + 110) + Sin(24 * y + 90)) * 1
  IN  TruncDiv(noise1 + noise2 + noise3 + noise4, 20) + 500

noise(x, y) ==
  IF kind = "CanvasOrig" THEN noiseSimple(x, y) ELSE noiseImproved(x, y)

\* The coordinates noise() is called with: every NoiseStep-th from 0
NoiseInputs == { NoiseStep * k : k \in 0 .. NoiseSteps }

\* One of the two versions of CanvasBackground, about to call noise(x, y)
InitNoise ==
  /\ kind \in {"CanvasOpt", "CanvasOrig"}
  /\ isFirefox = FALSE /\ hostFound = TRUE
  /\ eventsLeft = 0 /\ observe = FALSE
  /\ NoInstance
  /\ mouseX = 0 /\ mouseY = 0
  /\ width = 0 /\ height = 0
  /\ hexSize = HexSize /\ hexGrid = {}
  /\ PageOptions
  /\ docHeight = InnerHeight /\ scrollY = 0
  /\ devicePixelRatio = DprOne /\ webglProbe = "context"
  /\ peer = BlankInstance
  /\ noiseCall \in [x : NoiseInputs, y : NoiseInputs, value : {0},
                    done : {FALSE}]
  /\ debounced = NoDebouncedCall
  /\ gradient = NoGradient

\* const noiseValue = this.noise(x, y)
Noise ==
  /\ ~noiseCall.done
  /\ noiseCall' = [noiseCall EXCEPT !.value = noise(noiseCall.x, noiseCall.y),
                                    !.done = TRUE]
  /\ UNCHANGED << engine, debounced, gradient >>

SpecNoise == InitNoise /\ [][Noise]_vars

(* ------------------------------ debounce ------------------------------ *)
\* Time is counted in steps of the host's clock; wait is DebounceWait steps.
\* Times are kept up to one step past the wait: later than that is the same.
DebounceCap == DebounceWait + 1

\* clearTimeout(id): the host drops the timer with that handle, if it still
\* holds one
clearTimeout(d, id) ==
  [d EXCEPT !.timers = { t \in @ : t.id # id }]

\* setTimeout(later, wait), "later" holding the arguments a
setTimeout(d, a) ==
  [d EXCEPT !.timers = @ \cup {[id |-> d.nextId, args |-> a, age |-> 0]},
            !.timeout = d.nextId,
            !.nextId = d.nextId + 1]

\* executedFunction(...args) without its clearTimeout(timeout)
executedFunctionKeepsTimer(d, a) ==
  setTimeout([d EXCEPT !.calls = @ + 1, !.args = a, !.since = 0,
                       !.served = FALSE], a)

\* executedFunction(...args):
\*   clearTimeout(timeout); timeout = setTimeout(later, wait);
executedFunction(d, a) ==
  setTimeout(clearTimeout([d EXCEPT !.calls = @ + 1, !.args = a, !.since = 0,
                                    !.served = FALSE], d.timeout), a)

\* later = () => { clearTimeout(timeout); func(...args); } run by the host
\* for its timer t, which the host has removed
later(d, t) ==
  [clearTimeout([d EXCEPT !.timers = @ \ {t}], d.timeout)
     EXCEPT !.invoked = @ + 1, !.funcArgs = t.args, !.served = TRUE]

\* The arguments the debounced function is called with
DebounceArgs == 1 .. 2

\* A page that has called debounce(func, wait) and kept the result
InitDebounce ==
  /\ kind = "CanvasOpt"
  /\ isFirefox = FALSE /\ hostFound = TRUE
  /\ eventsLeft = 0 /\ observe = FALSE
  /\ NoInstance
  /\ mouseX = 0 /\ mouseY = 0
  /\ width = 0 /\ height = 0
  /\ hexSize = HexSize /\ hexGrid = {}
  /\ PageOptions
  /\ docHeight = InnerHeight /\ scrollY = 0
  /\ devicePixelRatio = DprOne /\ webglProbe = "context"
  /\ peer = BlankInstance
  /\ noiseCall = NoNoiseCall
  /\ debounced = NoDebouncedCall
  /\ gradient = NoGradient

\* The debounced function is called.
DebouncedCall ==
  /\ debounced.calls < MaxCalls
  /\ \E a \in DebounceArgs : debounced' = executedFunction(debounced, a)
  /\ UNCHANGED << engine, noiseCall, gradient >>

\* The host runs the callback of a timer whose delay has passed: setTimeout
\* promises no earlier, and no more.
TimerFires ==
  /\ \E t \in debounced.timers :
       /\ t.age >= DebounceWait
       /\ debounced' = later(debounced, t)
  /\ UNCHANGED << engine, noiseCall, gradient >>

\* One step of time passes.
TimePasses ==
  /\ debounced.calls > 0
  /\ debounced.since < DebounceCap
  /\ debounced' =
       [debounced EXCEPT
          !.since = Min(@ + 1, DebounceCap),
          !.timers = { [t EXCEPT !.age = Min(@ + 1, DebounceCap)] : t \in @ }]
  /\ UNCHANGED << engine, noiseCall, gradient >>

NextDebounce == DebouncedCall \/ TimerFires \/ TimePasses

SpecDebounce == InitDebounce /\ [][NextDebounce]_vars

(* ------------------------------ the mouse-reactive gradient ----------- *)
\* handleMouseMove(e), run in an animation frame: the position as a
\* percentage of the viewport, and --gradient-size: 50%
gradientMouseMove(g, e) ==
  [g EXCEPT !.mouseX = (e.clientX * 100) \div InnerWidth,
            !.mouseY = (e.clientY * 100) \div InnerHeight,
            !.size = GradientSize]

\* The mousemove listener:
\*   if (now - lastUpdate > throttleDelay) {
\*     window.requestAnimationFrame(function() { handleMouseMove(e); });
\*     lastUpdate = now; }
gradientMouseMoveListener(g, e) ==
  LET h == [g EXCEPT !.left = FALSE, !.events = @ + 1]
  IN  IF g.open
      THEN [h EXCEPT !.frames = Append(@, e), !.open = FALSE]
      ELSE h

\* The mouseout listener: --gradient-size: 0%
gradientMouseOutListener(g) ==
  [g EXCEPT !.size = 0, !.left = TRUE, !.events = @ + 1]

\* The page after DOMContentLoaded has run initMouseReactiveBackground()
InitGradient ==
  /\ kind = "CanvasOpt"
  /\ isFirefox = FALSE /\ hostFound = TRUE
  /\ eventsLeft = 0 /\ observe = FALSE
  /\ NoInstance
  /\ mouseX = 0 /\ mouseY = 0
  /\ width = 0 /\ height = 0
  /\ hexSize = HexSize /\ hexGrid = {}
  /\ PageOptions
  /\ docHeight = InnerHeight /\ scrollY = 0
  /\ devicePixelRatio = DprOne /\ webglProbe = "context"
  /\ peer = BlankInstance
  /\ NoHelperCalls

\* A mousemove event reaches the document.
GradientMouseMove ==
  /\ gradient.events < GradientEvents
  /\ \E e \in PointerPositions :
       gradient' = gradientMouseMoveListener(gradient, e)
  /\ UNCHANGED << engine, noiseCall, debounced >>

\* The pointer leaves: a mouseout event reaches the document.
GradientMouseOut ==
  /\ gradient.events < GradientEvents
  /\ gradient' = gradientMouseOutListener(gradient)
  /\ UNCHANGED << engine, noiseCall, debounced >>

\* The host runs the oldest pending animation-frame callback.
GradientFrame ==
  /\ gradient.frames # << >>
  /\ gradient' = [gradientMouseMove(gradient, Head(gradient.frames))
                    EXCEPT !.frames = Tail(gradient.frames)]
  /\ UNCHANGED << engine, noiseCall, debounced >>

\* More than throttleDelay passes since lastUpdate.
GradientClock ==
  /\ ~gradient.open
  /\ gradient' = [gradient EXCEPT !.open = TRUE]
  /\ UNCHANGED << engine, noiseCall, debounced >>

NextGradient ==
  GradientMouseMove \/ GradientMouseOut \/ GradientFrame \/ GradientClock

SpecGradient == InitGradient /\ [][NextGradient]_vars

(* ------------------------------ properties ---------------------------- *)
\* The fields of the instance (the wall clock and the page are not among
\* them: elapsed stands for Date.now() - this.lastResizeTime).
InstanceFields ==
  << isRunning, animationFrame, mouseX, mouseY, targetX, targetY, lastMouseX,
     lastMouseY, needsUpdate, frameCount, width, height, centerX, centerY,
     pending, listeners, attached, lastWidth, lastHeight, hexGrid >>

\* The last step ran the body of a dirty-frame render().
DirtyTick == kind \in DirtyKinds /\ tickResult \in {"skip", "paint", "threw"}

\* C1: in a dirty-frame engine every tick of render() taken while isRunning
\* is true ends with exactly one animation frame scheduled, on painting ticks
\* and on skipped ticks alike, and a skipped tick makes no draw call.
C1_EveryTickReschedules ==
  (kind \in DirtyKinds /\ tickResult # "none" /\ isRunning)
    => /\ Cardinality(pending) = 1
       /\ tickResult = "skip" => ~drew

\* C2: a draw call that throws does not end the loop: in the engines that
\* draw on a canvas, isRunning = true always comes with a pending frame, also
\* right after the tick whose draw call threw.
C2_LoopSurvivesDrawError ==
  (kind \in {"CanvasOpt", "CanvasOrig", "Hybrid"} /\ constructed /\ isRunning)
    => pending # {}

\* C3: start() on a running engine changes no field, and after every start()
\* call (the first one included) exactly one animation frame is pending.
C3_StartIdempotent ==
  [][ (Start /\ kind \in LifecycleKinds)
        => /\ isRunning => UNCHANGED InstanceFields
           /\ Cardinality(pending') = 1 ]_vars

\* C4: stop() leaves the engine stopped with no animation frame pending, and
\* from then until the next start() no step, whatever pointer, resize or
\* scroll events come in between, schedules a frame or runs a tick body (no
\* easing step, no frame count, no paint).
C4_StoppedIsQuiet ==
  [][ (kind \in LifecycleKinds /\ constructed)
        => /\ Stop => (~isRunning' /\ pending' = {})
           /\ (~isRunning /\ ~isRunning')
                => /\ pending' = {}
                   /\ tickResult' = "none" /\ ~drew'
                   /\ UNCHANGED << mouseX, mouseY, frameCount, lastMouseX,
                                   lastMouseY >> ]_vars

\* C4 witness: a CanvasBackground that ran and was stopped: its last frame
\* handle names no pending frame, and a pointer move has reached it since
\* its last tick.
C4_Witness ==
  /\ kind = "CanvasOpt" /\ constructed /\ hostRef
  /\ ~isRunning /\ animationFrame # 0 /\ pending = {}
  /\ "mousemove" \in listeners /\ movedSinceTick

\* C5: destroy() (after stop() or not) leaves none of the listeners of init()
\* attached and no animation frame scheduled, and with nothing attached and
\* nothing scheduled no event and no frame changes a field of the instance.
C5_DestroyDetaches ==
  [][ (kind \in LifecycleKinds /\ constructed)
        => /\ Destroy => (listeners' = {} /\ pending' = {} /\ ~isRunning')
           /\ (listeners = {} /\ pending = {}
               /\ (Frame \/ MouseMove \/ MouseLeave \/ Resize \/ Scroll))
                => UNCHANGED << InstanceFields, elapsed >> ]_vars

\* C5 witness: an engine that had listeners and a surface, torn down, with
\* an event delivered in the run.
C5_Witness ==
  /\ kind \in {"CanvasOpt", "Hybrid", "Svg"} /\ constructed /\ hostRef
  /\ hostFound /\ ~attached /\ listeners = {} /\ pending = {} /\ ~isRunning
  /\ animationFrame # 0 /\ eventsLeft = 0

\* C6: start(), stop() and destroy() never raise on a constructed instance of
\* a class that defines them, whatever the order, also when init() aborted.
C6_LifecycleNeverRaises ==
  [][ ((Start \/ Stop \/ Destroy) /\ kind \in LifecycleKinds) => ~threw' ]_vars

\* C7: ShaderBackground can be torn down: a stop or destroy call on a
\* constructed instance leaves no animate() callback scheduled and no resize
\* listener attached.
C7_ShaderTeardown ==
  [][ ((Stop \/ Destroy) /\ kind = "Shader")
        => (pending' = {} /\ listeners' = {}) ]_vars

\* C8: on a tick of a dirty-frame engine the paint pass runs if and only if
\* the eased pointer is more than 1 unit from the last painted position on
\* the x axis or on the y axis, or needsUpdate is set (from construction, by
\* the 30th tick since the last heartbeat, or by an accepted resize); a paint
\* pass sets lastMouseX/lastMouseY to the eased position and clears needsUpdate.
C8_PaintIffDirty ==
  [][ (kind \in DirtyKinds /\ tickResult' \in {"skip", "paint", "threw"})
        => LET painted == tickResult' # "skip"
               moved == \/ Abs(mouseX' - lastMouseX) > MotionEpsilon
                        \/ Abs(mouseY' - lastMouseY) > MotionEpsilon
               flagged == IF constructed
                          THEN needsUpdate \/ frameCount + 1 >= HeartbeatFrames
                          ELSE TRUE
           IN  /\ painted <=> (moved \/ flagged)
               /\ painted => /\ lastMouseX' = mouseX' /\ lastMouseY' = mouseY'
                             /\ ~needsUpdate' ]_vars

\* C8 witness: a tick that painted on the motion signal of the y axis alone
\* (the target kept its x), the flag clear and no heartbeat due.
C8_Witness ==
  /\ DirtyTick /\ tickResult = "paint" /\ constructed /\ movedSinceTick
  /\ ~resizedSinceTick /\ frameCount > 0
  /\ targetX = InnerWidth \div 2 /\ mouseX = InnerWidth \div 2
  /\ mouseY # InnerHeight \div 2 /\ lastMouseY = mouseY

\* The number of paint passes in the recorded window of quiet ticks.
PaintsInLog == Cardinality({i \in 1 .. Len(paintLog) : paintLog[i]})

\* C9: with the target stationary, the eased pointer settled and no
\* resize/scroll accepted, every 30 consecutive ticks hold exactly one paint.
C9_OnePaintPerWindow ==
  Len(paintLog) = HeartbeatFrames => PaintsInLog = 1

\* C9 witness: thirty quiet ticks in a row, the heartbeat's paint among them
\* but not at either end of the window.
C9_Witness ==
  /\ Len(paintLog) = HeartbeatFrames
  /\ ~paintLog[1] /\ ~paintLog[HeartbeatFrames] /\ PaintsInLog = 1

\* C10 as stated: when the target changed before every tick, every tick
\* painted.
C10_MovingPointerAlwaysPaints ==
  (DirtyTick /\ constructed /\ pointerBusy) => tickResult # "skip"

\* C10 amended: when the target changed before every tick, a paint pass runs
\* on every tick whose easing step leaves the eased pointer more than 1 unit
\* (on x or on y) from the last painted position.
C10_MovingPointerPaintsPastThreshold ==
  [][ (kind \in DirtyKinds /\ tickResult' \in {"skip", "paint", "threw"}
       /\ constructed /\ pointerBusy'
       /\ (\/ Abs(mouseX' - lastMouseX) > MotionEpsilon
           \/ Abs(mouseY' - lastMouseY) > MotionEpsilon))
        => tickResult' # "skip" ]_vars

\* C10 witness: two ticks since construction, a pointer move before each,
\* and the second painted away from where the first move had left the
\* pointer.
C10_Witness ==
  /\ DirtyTick /\ constructed /\ pointerBusy /\ movedSinceTick
  /\ tickResult = "paint" /\ eventsLeft = 0
  /\ frameCount = 3 /\ ~resizedSinceTick

(* ------------------------------ resize throttle ----------------------- *)
\* Both versions of CanvasBackground.
CanvasKinds == {"CanvasOpt", "CanvasOrig"}

\* C11: the resize/scroll handler is throttled: a resize or scroll event
\* that arrives less than 500 ms after the handler last reached its layout
\* queries does not reach them again and changes no field of the engine.
C11_ResizeThrottled ==
  [][ (Resize \/ Scroll) /\ kind \in CanvasKinds /\ sinceQuery < ThrottleMs
        => ~accepted' /\ UNCHANGED << InstanceFields, elapsed >> ]_vars

\* C12: surface dimensions are eventually consistent: once a burst of
\* resize/scroll events has ended (no event is still to come, and nothing
\* but frames can run), the stored width and height equal the dimensions of
\* the observed content area as soon as the throttle interval has passed.
C12_DimensionsSettle ==
  /\ constructed /\ "resize" \in listeners
  /\ kind \in {"CanvasOpt", "Hybrid"}
  /\ eventsLeft = 0 /\ sinceQuery = ThrottleMs
  => width = InnerWidth /\ height = docHeight

(* ------------------------------ grid regeneration --------------------- *)
\* The dimensions of the last grid build: the optimized class records them;
\* the first version builds at every handleResize(), for its current size.
BuiltWidth == IF kind = "CanvasOpt" THEN lastWidth ELSE width

BuiltHeight == IF kind = "CanvasOpt" THEN lastHeight ELSE height

\* The resize that takes the content area to height dh changes the width or
\* the height by more than the threshold from the last grid build.
Significant(dh) ==
  \/ Abs(InnerWidth - BuiltWidth) > RegenThreshold
  \/ Abs(dh - BuiltHeight) > RegenThreshold

\* C13: a resize in which neither the width nor the height differs by more
\* than 100 units from the dimensions of the last grid build leaves the
\* stored hexGrid unchanged (same cells, same coordinates).
C13_SmallResizeKeepsGrid ==
  [][ Resize /\ kind \in CanvasKinds /\ "resize" \in listeners
        /\ ~Significant(docHeight')
        => hexGrid' = hexGrid ]_vars

\* C14: a resize in which the width or the height changes by more than 100
\* units from the dimensions of the last grid build leaves a hexGrid newly
\* generated for the new dimensions, whenever the resize occurs.
C14_LargeResizeRebuildsGrid ==
  [][ Resize /\ kind = "CanvasOpt" /\ "resize" \in listeners
        /\ Significant(docHeight')
        => /\ hexGrid' = GridCells(InnerWidth, docHeight', hexSize)
           /\ lastWidth' = InnerWidth /\ lastHeight' = docHeight' ]_vars

(* ------------------------------ grid geometry ------------------------- *)
\* Comparisons of a cell's centre with a length in pixels.  A cell's x is
\* c.x * size * sqrt(3) / 4 pixels and its y is c.y * size / 4 pixels.
XBeyond(c, px) == c.x > 0 /\ 3 * c.x * c.x * c.size * c.size > 16 * px * px

XAtLeast(c, px) == c.x >= 0 /\ 3 * c.x * c.x * c.size * c.size >= 16 * px * px

YBeyond(c, px) == c.y * c.size > 4 * px

YAtLeast(c, px) == c.y * c.size >= 4 * px

\* The cells of grid g in the row at height y
RowAt(g, y) == {c \in g : c.y = y}

\* The row at height y spans the surface from its left to its right edge.
FullRow(g, y, W) ==
  /\ \E c \in RowAt(g, y) : c.x <= 0
  /\ \E c \in RowAt(g, y) : XAtLeast(c, W)

\* The bounding extent of grid g covers the surface [0,W] x [0,H].
CoversSurface(g, W, H) ==
  /\ \E c \in g : c.x <= 0
  /\ \E c \in g : XAtLeast(c, W)
  /\ \E c \in g : c.y <= 0
  /\ \E c \in g : YAtLeast(c, H)

\* Grid g has a full row beyond the top and beyond the bottom edge and, in
\* every row, a cell beyond the left and beyond the right edge.
Overshoots(g, W, H) ==
  /\ \E c \in g : c.y < 0 /\ FullRow(g, c.y, W)
  /\ \E c \in g : YBeyond(c, H) /\ FullRow(g, c.y, W)
  /\ \A r \in g : \E c \in RowAt(g, r.y) : c.x < 0
  /\ \A r \in g : \E c \in RowAt(g, r.y) : XBeyond(c, W)

\* C15: for every width, height and cell size, generateHexGrid() produces a
\* non-empty cell set whose extent covers [0,W] x [0,H] (min x <= 0,
\* max x >= W, min y <= 0, max y >= H) and that has at least one full extra
\* row and column of cells beyond each of the four edges.
C15_GridCoversWithOvershoot ==
  [][ GenerateHexGrid
        => /\ hexGrid' # {}
           /\ CoversSurface(hexGrid', width, height)
           /\ Overshoots(hexGrid', width, height) ]_vars

\* The pitches the grid is meant to have, in the units of the cells: the
\* horizontal pitch size * sqrt(3) * spacing in quarters of hexWidth, the
\* vertical pitch size * 1.5 * spacing in quarters of size.
HPitch == (4 * Spacing[1]) \div Spacing[2]

VPitch == (6 * Spacing[1]) \div Spacing[2]

\* The least x among the cells of the row at height y
RowMinX(g, y) ==
  CHOOSE x \in {c.x : c \in RowAt(g, y)} : \A c \in RowAt(g, y) : x <= c.x

\* The row of cell c has an odd index (y is the index times the pitch).
OddRow(c) == (c.y \div VPitch) % 2 = 1

\* C16: in the generated grid the horizontal pitch is size * sqrt(3) *
\* spacing, the vertical pitch is size * 1.5 * spacing, and every odd row
\* (negative indices included) is shifted horizontally by exactly half of
\* the horizontal pitch relative to the even rows.
C16_PitchAndHalfShift ==
  [][ GenerateHexGrid
        => \A c \in hexGrid' :
             /\ c.y % VPitch = 0
             /\ \/ c.x = RowMinX(hexGrid', c.y)
                \/ \E d \in RowAt(hexGrid', c.y) : c.x - d.x = HPitch
             /\ \/ \A d \in hexGrid' : c.y <= d.y
                \/ \E d \in hexGrid' : c.y - d.y = VPitch
             /\ \A d \in hexGrid' :
                  OddRow(c) /\ ~OddRow(d)
                    => 2 * (RowMinX(hexGrid', c.y) - RowMinX(hexGrid', d.y))
                         = HPitch ]_vars

(* ------------------------------ pointer leave ------------------------- *)
\* The classes whose handleMouseLeave() resets the target to a centre.
LeaveKinds == {"CanvasOpt", "Hybrid", "Svg"}

\* Width and height of the surface the engine owns: the canvas (the hero
\* section for HybridBackground) as stored; the container of SvgBackground,
\* which spans the document.
SurfaceWidth == IF kind = "Svg" THEN InnerWidth ELSE width

SurfaceHeight == IF kind = "Svg" THEN docHeight ELSE height

\* C17 as stated: on pointer-leave the target is reset to the geometric
\* centre (width/2, height/2) of the surface the engine owns, for every
\* scroll position and surface size.
C17_LeaveResetsToSurfaceCentre ==
  [][ MouseLeave /\ "mouseleave" \in listeners /\ kind \in LeaveKinds
        => /\ targetX' = SurfaceWidth \div 2
           /\ targetY' = SurfaceHeight \div 2 ]_vars

\* C17, amended: on pointer-leave CanvasBackground and SvgBackground reset
\* the target to the centre of the current viewport in document
\* coordinates, (width/2, scrollY + innerHeight/2); HybridBackground resets
\* it to the centre (width/2, height/2) of the hero section as stored.
C17_LeaveResetsToCentre ==
  [][ MouseLeave /\ "mouseleave" \in listeners /\ kind \in LeaveKinds
        => /\ targetX' = SurfaceWidth \div 2
           /\ targetY' = IF kind = "Hybrid" THEN height \div 2
                         ELSE scrollY + (InnerHeight \div 2) ]_vars

\* The pointer has left the scrolled page over a CanvasBackground: the
\* target is the centre of the viewport, which is not that of the canvas.
C17_Witness ==
  /\ kind = "CanvasOpt" /\ constructed /\ "mouseleave" \in listeners
  /\ scrollY = ScrollMax /\ eventsLeft = 0 /\ movedSinceTick
  /\ targetX = width \div 2
  /\ targetY = scrollY + (InnerHeight \div 2)
  /\ targetY # height \div 2

(* ------------------------------ hexagon layer ------------------------- *)
\* What the last hexagon loop did with the cell c
FateOf(c) == CHOOSE f \in hexFates : f.hex = c

\* C18: in every paint pass, a grid cell whose distance from the eased
\* pointer is greater than 1.5 x hexFadeRadius is never drawn and no opacity
\* is computed for it.
C18_FarCellsSkipped ==
  hexFates # {} =>
    \A c \in hexGrid :
      4 * DistanceSq(c, Cur) > 9 * FadeRadius * FadeRadius
        => FateOf(c).fate \in {"culled", "far"}

\* A paint pass met a cell inside the viewport band and beyond the
\* visibility radius.
C18_Witness ==
  \E f \in hexFates :
    /\ f.fate = "far"
    /\ 4 * DistanceSq(f.hex, Cur) > 9 * FadeRadius * FadeRadius

\* The cell c lies in the band of the document the optimized class draws:
\* the viewport with its buffer above and below.
InViewportBand(c) ==
  /\ HexY(c) >= scrollY - ViewportBuffer
  /\ HexY(c) <= scrollY + InnerHeight + ViewportBuffer

\* C19 as stated: in every paint pass with the grid enabled, a grid cell at
\* distance 0 from the eased pointer is drawn, with opacity exactly
\* hexOpacity, for every pointer position and scroll offset.
C19_CentreCellAtMaxOpacity ==
  hexFates # {} =>
    \A c \in hexGrid :
      DistanceSq(c, Cur) = 0
        => FateOf(c).fate = "drawn" /\ FateOf(c).opacity = MaxOpacity

\* C19, amended: a grid cell at distance 0 from the eased pointer is drawn
\* with opacity exactly hexOpacity by the first version always, and by the
\* optimized version when the cell lies within 200 units of the viewport
\* (scrollY - 200 <= y <= scrollY + innerHeight + 200); outside that band
\* the optimized version skips the cell.
C19_CentreCellInBandAtMaxOpacity ==
  hexFates # {} =>
    \A c \in hexGrid :
      DistanceSq(c, Cur) = 0
        => IF kind = "CanvasOrig" \/ InViewportBand(c)
           THEN FateOf(c).fate = "drawn" /\ FateOf(c).opacity = MaxOpacity
           ELSE FateOf(c).fate = "culled"

\* The optimized class drew the cell under the pointer on a scrolled page.
C19_Witness ==
  /\ kind = "CanvasOpt" /\ scrollY # 0
  /\ \E f \in hexFates :
       /\ DistanceSq(f.hex, Cur) = 0
       /\ f.fate = "drawn" /\ f.opacity = MaxOpacity

\* The cells the last hexagon loop took past its two skips, at a distance of
\* at most fadeRadius from the eased pointer.
WithinFade ==
  {f \in hexFates : /\ f.fate \in {"drawn", "faint"}
                    /\ DistanceSq(f.hex, Cur) <= FadeRadius * FadeRadius}

\* C20: the cell opacity maxOpacity * (1 - d / fadeRadius)^3 is
\* monotonically non-increasing in the distance d over 0 <= d <= fadeRadius,
\* and the opacity obtained at d = fadeRadius is 0: for the formula at every
\* whole distance, and for the cells of a paint pass.
C20_OpacityFalloff ==
  hexFates # {} =>
    /\ \A d \in 0 .. (FadeRadius - 1) : Opacity(d) >= Opacity(d + 1)
    /\ Opacity(FadeRadius) = 0
    /\ \A f, g \in WithinFade :
         DistanceSq(f.hex, Cur) < DistanceSq(g.hex, Cur)
           => f.opacity >= g.opacity
    /\ \A f \in WithinFade :
         DistanceSq(f.hex, Cur) = FadeRadius * FadeRadius => f.opacity = 0

\* A paint pass drew two cells at different opacities, the nearer one the
\* more opaque, and met a cell at exactly fadeRadius from the pointer.
C20_Witness ==
  /\ \E f, g \in WithinFade :
       /\ DistanceSq(f.hex, Cur) < DistanceSq(g.hex, Cur)
       /\ f.opacity > g.opacity /\ g.opacity > 0
  /\ \E f \in WithinFade :
       DistanceSq(f.hex, Cur) = FadeRadius * FadeRadius

(* ------------------------------ easing -------------------------------- *)
\* A step in which the render body of an engine with an eased pointer ran
\* on the instance as the previous step left it: the frame callback, or
\* start() calling render() itself.
EasingTick ==
  /\ Frame \/ Start
  /\ tickResult' \in {"skip", "paint", "threw"}
  /\ kind \in {"CanvasOpt", "CanvasOrig", "Hybrid", "Svg", "LogoTilt"}
  /\ hostFound

\* (target - current) * easing with the easing factor of the class
EasingStep(current, target) ==
  IF kind = "LogoTilt"
  THEN TruncDiv((target - current) * LogoEasingNum, LogoEasingDen)
  ELSE TruncDiv((target - current) * EasingNum, EasingDen)

PaintedAt(l) ==
  IF \E i \in 1 .. Len(layers) : layers[i] = l
  THEN CHOOSE i \in 1 .. Len(layers) :
         /\ layers[i] = l
         /\ \A j \in 1 .. (i - 1) : layers[j] # l
  ELSE 0

\* Layer a, when both are painted, is painted ahead of layer b.
Before(a, b) ==
  (PaintedAt(a) # 0 /\ PaintedAt(b) # 0) => PaintedAt(a) < PaintedAt(b)

\* No layer is painted twice in a pass.
PaintedOnce ==
  \A i, j \in 1 .. Len(layers) : layers[i] = layers[j] => i = j

PaintPassRan == tickResult' \in {"paint", "threw"}

\* C23 as stated: the owned render surface (bitmap, pixel dimensions,
\* transform) is written only by the paint pass inside the animation-frame
\* callback; no pointer, resize or scroll handler modifies or clears it.
C23_SurfaceWrittenOnlyByPaint ==
  [][ /\ (constructed /\ surface' # surface) => (Frame /\ PaintPassRan)
      /\ (MouseMove \/ MouseLeave \/ Resize \/ Scroll)
           => surface' = surface ]_vars

\* C23, amended: the bitmap of the owned surface is painted only by the
\* paint pass of the render method; no pointer handler modifies or clears
\* the surface; the resize/scroll handler (and the construction that runs
\* it) is the one other writer: it sets the pixel dimensions and the
\* transform, which clears the bitmap, and paints nothing.
C23_SurfacePaintedOnlyByPaint ==
  [][ /\ surface' # surface
           => \/ /\ PaintPassRan /\ surface'.painted
                 /\ surface' = [surface EXCEPT !.painted = TRUE]
              \/ Construct \/ Resize \/ Scroll
      /\ (surface'.painted /\ ~surface.painted) => PaintPassRan
      /\ (MouseMove \/ MouseLeave) => surface' = surface
      /\ (Resize \/ Scroll)
           => \/ surface' = surface
              \/ ~surface'.painted /\ surface'.scale = dpr ]_vars

\* A resize event reached the handler of a CanvasBackground whose canvas
\* held a painted frame, and left the canvas sized for the taller page and
\* cleared.
C23_Witness ==
  /\ kind = "CanvasOpt" /\ constructed /\ eventsLeft = 0
  /\ accepted /\ tickResult = "none"
  /\ ~surface.painted
  /\ surface.width = InnerWidth * DprOne /\ surface.height = TallDoc * DprOne

(* ------------------------------ construction without a host element --- *)
\* The classes that look their host element up at construction
HostKinds == {"Hybrid", "Perlin", "Shader", "LogoTilt"}

\* C24: when the host element is absent at construction (.hero-section for
\* HybridBackground, PerlinBackground and ShaderBackground, the logo
\* element for LogoTilt), construction completes without throwing and
\* leaves the instance disabled: nothing attached, no listener, no frame
\* scheduled.
C24_NoHostLeavesInstanceDisabled ==
  [][ (Construct /\ kind \in HostKinds /\ ~hostFound)
        => /\ constructed' /\ ~threw'
           /\ ~attached' /\ listeners' = {} /\ pending' = {}
           /\ ~isRunning' /\ tickResult' = "none"
           /\ surface' = NoSurface ]_vars

\* A HybridBackground was constructed on a page without a hero section.
C24_Witness ==
  /\ kind = "Hybrid" /\ ~hostFound /\ constructed
  /\ ~attached /\ pending = {}

(* ------------------------------ the WebGL probe ----------------------- *)
\* C25: ShaderBackground probes WebGL before committing resources: when the
\* probe fails (yields a falsy value or raises), no container is attached,
\* no renderer is created, no resize listener is added and animate() is
\* never started; the constructor does not raise.
C25_FailedProbeCommitsNothing ==
  [][ (Construct /\ kind = "Shader" /\ hostFound /\ webglProbe # "context")
        => /\ constructed' /\ ~threw'
           /\ ~attached' /\ surface' = NoSurface /\ ~isRunning'
           /\ listeners' = {} /\ pending' = {}
           /\ tickResult' = "none" ]_vars

\* A ShaderBackground was constructed in a hero section on a host whose
\* getContext raises.
C25_Witness ==
  /\ kind = "Shader" /\ hostFound /\ webglProbe = "raises" /\ constructed
  /\ ~attached /\ listeners = {}

(* ------------------------------ the scale of the owned canvas --------- *)
\* C26: for every engine and every devicePixelRatio of the host (absent,
\* below 1, above 2) the scale factor used to size the render surface is at
\* most 2, and equals min(devicePixelRatio or 1, 2).
C26_ScaleAtMostTwo ==
  surface # NoSurface
    => /\ surface.scale <= DprCap
       /\ surface.scale = Min(dprUncapped, DprCap)

(* ------------------------------ effective configuration --------------- *)
\* The options the class recognizes: the keys of its defaults
Recognized == DOMAIN Defaults

OutsideBand(c) ==
  \/ c.y * c.size < 4 * (scrollY - ViewportBuffer)
  \/ c.y * c.size > 4 * (scrollY + InnerHeight + ViewportBuffer)

\* C29: in the optimized CanvasBackground a cell whose y lies outside
\* [scrollY - 200, scrollY + innerHeight + 200] is never drawn in a paint
\* pass, whatever its distance from the pointer.
C29_CellsOutsideBandNeverDrawn ==
  (kind = "CanvasOpt" /\ hexFates # {})
    => \A f \in hexFates :
         OutsideBand(f.hex) => f.fate = "culled" /\ f.opacity = 0

\* A pass of the optimized class skipped a cell below the band that lies
\* within the fade radius of the pointer.
C29_Witness ==
  /\ kind = "CanvasOpt"
  /\ \E f \in hexFates :
       /\ OutsideBand(f.hex) /\ f.fate = "culled"
       /\ DistanceSq(f.hex, Cur) < FadeRadius * FadeRadius

(* ------------------------------ squared against root distances -------- *)
\* What a pass painted of a cell: whether drawHexagon was reached, and the
\* opacity it was given.
Painted(f) == [drawn |-> f.fate = "drawn", opacity |-> f.opacity]

\* The distance tests of the other version, on the same cell and pointer
OtherVersion(c) ==
  IF kind = "CanvasOrig" THEN hexFateSquared(c, Cur) ELSE hexFateRoot(c, Cur)

C31_NoiseInUnitRange ==
  noiseCall.done => noiseCall.value >= 0 /\ noiseCall.value <= 1000

(* ------------------------------ tilt within maxTilt ------------------- *)
\* C32: maxTilt is the maximum tilt angle of LogoTilt: for every pointer
\* position inside the viewport and every position of the logo, the target
\* tilts and the eased tilts tiltX and tiltY never exceed maxTilt in absolute
\* value.
C32_TiltWithinMaxTilt ==
  kind = "LogoTilt" /\ constructed /\ hostFound
    => /\ Abs(targetX) <= MaxTilt /\ Abs(targetY) <= MaxTilt
       /\ Abs(mouseX) <= MaxTilt /\ Abs(mouseY) <= MaxTilt

(* ------------------------------ debounce ------------------------------ *)
\* func is invoked in this step.
FuncInvoked == debounced'.invoked = debounced.invoked + 1

\* What holds of every invocation of func and of the timers at all times:
\* func runs only when wait has passed since the most recent call of the
\* debounced function, with that call's arguments, and not a second time
\* for the same call; at most one timer is pending.
DebounceSound ==
  /\ Cardinality(debounced'.timers) <= 1
  /\ FuncInvoked
       => /\ debounced.since >= DebounceWait
          /\ debounced'.funcArgs = debounced.args
          /\ ~debounced.served

\* A call of the debounced function that ends a quiet period of at least
\* wait finds func already invoked for the call before it.
QuietPeriodServed ==
  debounced'.calls = debounced.calls + 1 /\ debounced.calls > 0
    /\ debounced.since >= DebounceWait
    => debounced.served

\* C33: the debounced function invokes func only when wait has passed since
\* its most recent call, exactly once per such quiet period and with the
\* arguments of that call; at most one timer is pending at any time and func
\* is never invoked while calls keep arriving less than wait apart.
C33_DebounceExactlyOncePerQuietPeriod ==
  [][DebounceSound /\ QuietPeriodServed]_vars

\* C33, amended: ... at most once per such quiet period (once if the timer's
\* callback runs before the next call arrives, which clears the timer
\* otherwise) ...
C33_DebounceAtMostOncePerQuietPeriod ==
  [][ /\ DebounceSound
      /\ (debounced.timers # {} /\ ~FuncInvoked
            /\ debounced'.calls = debounced.calls
          => debounced'.timers # {} /\ ~debounced'.served) ]_vars

\* func has run for an earlier call, and again for a later call with other
\* arguments, after a call that cleared a pending timer.
C33_Witness ==
  /\ debounced.invoked = 2 /\ debounced.calls >= 3
  /\ debounced.served /\ debounced.funcArgs = debounced.args
  /\ debounced.timers = {}

(* ------------------------------ the gradient after mouseout ----------- *)
\* C34: once the mouse has left the window (mouseout handled) the
\* --gradient-size property is 0% and stays 0% until the next mousemove
\* event is received, for every interleaving of mousemove events, their
\* deferred animation-frame callbacks and the mouseout event.
C34_GradientZeroAfterMouseout ==
  gradient.left => gradient.size = 0

(* ------------------------------ staleness of the painted pointer ------ *)
\* C35: at the end of every tick of a dirty-frame engine the eased pointer
\* position differs from the last painted position (lastMouseX, lastMouseY)
\* by at most 1 unit on each axis: the motion signal compares against the
\* last painted position and not against the previous tick.
C35_PaintedPointerAtMostOneUnitStale ==
  DirtyTick => /\ Abs(mouseX - lastMouseX) <= MotionEpsilon
               /\ Abs(mouseY - lastMouseY) <= MotionEpsilon

\* A tick was skipped with the eased pointer one unit away from the painted
\* one on both axes, on its way to the target.
C35_Witness ==
  /\ DirtyTick /\ tickResult = "skip"
  /\ Abs(mouseX - lastMouseX) = MotionEpsilon
  /\ Abs(mouseY - lastMouseY) = MotionEpsilon
  /\ targetX # mouseX

(* ------------------------------ the stored grid and the surface ------- *)
\* C36: in the optimized CanvasBackground with the grid enabled, after every
\* sequence of accepted and throttled resize/scroll events the stored hexGrid
\* still spans the current surface: its min x <= 0, max x >= current width,
\* min y <= 0 and max y >= current height.
C36_StoredGridSpansSurface ==
  kind = "CanvasOpt" /\ constructed /\ Truthy(options.hexEnabled)
    => CoversSurface(hexGrid, width, height)

(* ------------------------------ the set of cells drawn ---------------- *)
\* The cell lies strictly inside the fade radius around the eased pointer.
InsideFade(c) == DistanceSq(c, Cur) < FadeRadius * FadeRadius

\* The cell lies between the fade radius and the visibility radius.
BetweenRadii(c) ==
  /\ DistanceSq(c, Cur) >= FadeRadius * FadeRadius
  /\ 4 * DistanceSq(c, Cur) <= 9 * FadeRadius * FadeRadius

\* The viewport window of the optimized variant; the first version has none.
InWindow(c) == kind = "CanvasOpt" => ~OutsideBand(c)

\* C37: the cells drawn by a paint pass are exactly the cells at distance
\* strictly less than hexFadeRadius from the eased pointer (and, in the
\* optimized variant, inside the viewport window); cells at a distance
\* between hexFadeRadius and 1.5 x hexFadeRadius pass the outer cull but are
\* never drawn.
C37_DrawnExactlyInsideFadeRadius ==
  \A f \in hexFates :
    /\ f.fate = "drawn" <=> (InsideFade(f.hex) /\ InWindow(f.hex))
    /\ BetweenRadii(f.hex) /\ InWindow(f.hex) => f.fate = "faint"

\* A pass of the optimized variant met a cell exactly on the fade radius and
\* left it undrawn, drew a cell inside it, and skipped a cell inside the fade
\* radius that lies outside the viewport window.
C37_Witness ==
  /\ kind = "CanvasOpt"
  /\ \E f, g, h \in hexFates :
       /\ DistanceSq(f.hex, Cur) = FadeRadius * FadeRadius
       /\ InWindow(f.hex) /\ f.fate = "faint"
       /\ g.fate = "drawn" /\ InsideFade(g.hex)
       /\ InsideFade(h.hex) /\ ~InWindow(h.hex) /\ h.fate = "culled"

(* ------------------------------ the pointer and the hero section ------ *)
\* this.heroSection.getBoundingClientRect(): the section starts at the top
\* of the document and is as wide as the window.
HeroRect ==
  [left |-> 0, right |-> InnerWidth, top |-> 0 - scrollY,
   bottom |-> docHeight - scrollY]

InHeroSection(e) ==
  /\ e.clientX >= HeroRect.left /\ e.clientX <= HeroRect.right
  /\ e.clientY >= HeroRect.top /\ e.clientY <= HeroRect.bottom

\* The step is the mousemove event e reaching the document.
MouseMoveTo(e) ==
  /\ constructed
  /\ eventsLeft > 0 /\ eventsLeft' = eventsLeft - 1
  /\ Commit(IF "mousemove" \in listeners
            THEN handleMouseMove(Cur, e.clientX, e.clientY, scrollY)
            ELSE Cur,
            docHeight, scrollY)
  /\ UNCHANGED << constructed, hostRef >>

TargetKept == targetX' = targetX /\ targetY' = targetY

\* C38: in HybridBackground a mousemove event whose pointer lies outside the
\* hero section's bounding rectangle leaves mouse.targetX and mouse.targetY
\* unchanged; only a mousemove inside the rectangle sets the target, to the
\* pointer position relative to the rectangle's top-left corner, and the
\* target is never reset when the pointer leaves the hero section without
\* leaving the document.
C38_TargetFollowsPointerInsideHeroOnly ==
  [][ kind = "Hybrid" /\ constructed
        => /\ \A e \in PointerPositions :
                MouseMoveTo(e)
                  => IF InHeroSection(e) /\ "mousemove" \in listeners
                     THEN /\ targetX' = e.clientX - HeroRect.left
                          /\ targetY' = e.clientY - HeroRect.top
                     ELSE TargetKept
           /\ ~TargetKept => MouseMove \/ MouseLeave ]_vars

\* On a scrolled page a mousemove inside the hero section set the target to
\* the pointer's place in the section, below its place in the viewport.
C38_Witness ==
  /\ kind = "Hybrid" /\ constructed /\ "mousemove" \in listeners
  /\ scrollY = ScrollMax /\ docHeight = InnerHeight
  /\ eventsLeft = 0
  /\ targetX = 0 /\ targetY = ScrollMax

(* ------------------------------ HybridBackground on Firefox ----------- *)
OnFirefox == kind = "Hybrid" /\ isFirefox

\* What a step leaves of an instance on Firefox: no pointer listener, no
\* draw call, no painted surface and, once constructed, the eased pointer,
\* the frame counter and the dirty flag as they were.
FirefoxStill ==
  /\ listeners' \cap {"mousemove", "mouseleave"} = {}
  /\ ~drew' /\ ~surface'.painted
  /\ constructed => /\ mouseX' = mouseX /\ mouseY' = mouseY
                    /\ frameCount' = frameCount
                    /\ needsUpdate' = needsUpdate

====
